---- MODULE Spec2Model ----
(***************************************************************************)
(* Program generation (src/src/utils/programGenerator.ts) and workout-log   *)
(* persistence (src/src/utils/workoutLogs.ts) of the coaching application, *)
(* as state machines.                                                      *)
(*                                                                         *)
(* programGenerator.ts holds two definitions of generateProgramClientSide: *)
(* lines 1-425 (variant 1) and lines 426-831 (variant 2).  A build has one *)
(* of them; the variable `variant` says which, and never changes.          *)
(*                                                                         *)
(* generateProgramClientSide is stepped one training day at a time: the    *)
(* variables are the locals of its week/day loops.  Weights are integers   *)
(* counting 1/40 kg (25 g), so 2.5 kg = 100 and every product the code     *)
(* forms (1RM * 0.9, TM * percentage) is an integer.                       *)
(*                                                                         *)
(* On the 5/3/1 path of variant 1 a day's exercises are its main-lift      *)
(* entries, kept in week/program, followed by its accessory entries.  The  *)
(* accessory entries are drawn afresh every day from materiel alone, and   *)
(* the state keeps those of the day generated last (dayAccessories), not   *)
(* those of earlier days.  Variant 2 draws nothing at random and its days  *)
(* hold their accessory entries.                                           *)
(***************************************************************************)
EXTENDS Integers, Sequences, FiniteSets, Bags, TLC

VARIABLES
    variant,         \* which of the file's two generateProgramClientSide is built
    values,          \* the ProgramFormData passed to generateProgramClientSide
    pc,              \* position in generateProgramClientSide
    weekNum,         \* week being generated (cycleWeek.week / weekNum)
    dayIndex,        \* dayIndex of the inner loop
    weeklyVolume,    \* generic path: sets counted per large muscle group
    acceptedToday,   \* generic path: length of dayExercises before slice(0, 8)
    week,            \* days pushed into the week under construction
    program,         \* the Program under construction, the result once returned
    dayAccessories,  \* 5/3/1 path: accessory entries of the day generated last
    previous,        \* result of the preceding call with the same input
    store,           \* rows of the workout_logs table
    workoutData,     \* the DayWorkoutDataState the session has built
    loaded,          \* what the last getWorkoutLogs returned
    logPc,           \* position in saveWorkoutLog
    call,            \* arguments of the saveWorkoutLog call in flight or last made
    logsToInsert,    \* the rows flattened by that call
    result,          \* what the last call returned
    calls,           \* number of calls made to the two functions
    selectedUserProgram, \* MonEspace: the program being viewed, or "null"
    isSavingWorkout, \* MonEspace: the state behind the save buttons' disabled
    pageError,       \* MonEspace: error, the page's error message, or "null"
    saves,           \* MonEspace: the runs of handleSaveDayWorkout started so far
    userPrograms,    \* MonEspace: the list of the user's programs, or null
    isLoading,       \* MonEspace: the list of programs is being fetched
    fetches          \* MonEspace: the runs of handleSelectProgram started so far

genVars == <<variant, values, pc, weekNum, dayIndex, weeklyVolume, acceptedToday, week,
             program, dayAccessories, previous>>

logVars == <<store, workoutData, loaded, logPc, call, logsToInsert, result, calls>>

selectVars == <<userPrograms, isLoading, fetches>>

pageVars == <<selectedUserProgram, isSavingWorkout, pageError, saves, selectVars>>

vars == <<genVars, logVars, pageVars>>

\* what no step of generateProgramClientSide changes
fixedVars == <<variant, values, logVars, pageVars>>

(***************************************************************************)
(* Small helpers on sequences and numbers.                                 *)
(***************************************************************************)
Min(a, b) == IF a < b THEN a ELSE b

Range(s) == {s[i] : i \in 1..Len(s)}

\* Array.prototype.slice(0, n)
Slice(s, n) == SubSeq(s, 1, Min(n, Len(s)))

\* Array.prototype.includes
Includes(s, x) == \E i \in 1..Len(s) : s[i] = x

\* JavaScript numbers that may also be null, undefined or NaN
Num(v) == [kind |-> "number", v |-> v]
Null == [kind |-> "null", v |-> 0]
Undefined == [kind |-> "undefined", v |-> 0]
NaN == [kind |-> "NaN", v |-> 0]

\* one kilogram in the model's weight unit (1/40 kg)
Kg == 40

(***************************************************************************)
(* JavaScript text.  A string the code parses, trims or builds from a      *)
(* number is a sequence of one-character strings, e.g. <<"6", "2", ".",    *)
(* "5">>.  The numbers so written and read count 1/100.                    *)
(***************************************************************************)
Digits == <<"0", "1", "2", "3", "4", "5", "6", "7", "8", "9">>

IsDigit(c) == \E d \in 1..Len(Digits) : Digits[d] = c

DigitValue(c) == (CHOOSE d \in 1..Len(Digits) : Digits[d] = c) - 1

RECURSIVE NatText(_)
NatText(n) ==
    IF n < Len(Digits) THEN << Digits[n + 1] >>
    ELSE Append(NatText(n \div Len(Digits)), Digits[(n % Len(Digits)) + 1])

\* Number.prototype.toString of h/100: the shortest decimal text
numberToString(h) ==
    LET a == IF h < 0 THEN 0 - h ELSE h
        frac == a % 100
    IN (IF h < 0 THEN << "-" >> ELSE << >>)
         \o NatText(a \div 100)
         \o (IF frac = 0 THEN << >>
             ELSE IF frac % 10 = 0 THEN << ".", Digits[(frac \div 10) + 1] >>
             ELSE << ".", Digits[(frac \div 10) + 1], Digits[(frac % 10) + 1] >>)

\* values of a row's weight, reps and notes columns: a number (v counts
\* 1/100), a string, null, or the NaN a failed parseFloat leaves
JsNumber(h) == [kind |-> "number", v |-> h, text |-> << >>]
JsString(t) == [kind |-> "string", v |-> 0, text |-> t]
JsNull == [kind |-> "null", v |-> 0, text |-> << >>]
JsNaN == [kind |-> "NaN", v |-> 0, text |-> << >>]

RECURSIVE trimStart(_)
trimStart(t) == IF t # << >> /\ Head(t) = " " THEN trimStart(Tail(t)) ELSE t

RECURSIVE trimEnd(_)
trimEnd(t) ==
    IF t # << >> /\ t[Len(t)] = " " THEN trimEnd(SubSeq(t, 1, Len(t) - 1)) ELSE t

\* String.prototype.trim
trim(t) == trimEnd(trimStart(t))

\* the longest prefix of t made of decimal digits
RECURSIVE LeadingDigits(_)
LeadingDigits(t) ==
    IF t # << >> /\ IsDigit(Head(t))
    THEN << Head(t) >> \o LeadingDigits(Tail(t))
    ELSE << >>

RECURSIVE DigitsValue(_)
DigitsValue(t) ==
    IF t = << >> THEN 0
    ELSE DigitsValue(SubSeq(t, 1, Len(t) - 1)) * Len(Digits) + DigitValue(t[Len(t)])

\* parseFloat: leading white space is skipped, then the longest prefix that
\* is a decimal literal (sign, digits, point, digits) is read and what
\* follows it is ignored; NaN when no digit is read.  The texts of the model
\* carry at most two decimals and no exponent.
parseFloat(t) ==
    LET s0 == trimStart(t)
        signed == s0 # << >> /\ Head(s0) \in {"-", "+"}
        s1 == IF signed THEN Tail(s0) ELSE s0
        int == LeadingDigits(s1)
        rest == SubSeq(s1, Len(int) + 1, Len(s1))
        frac == IF rest # << >> /\ Head(rest) = "." THEN LeadingDigits(Tail(rest))
                ELSE << >>
        hundredths == DigitsValue(int) * 100
                        + (IF Len(frac) >= 1 THEN DigitValue(frac[1]) * 10 ELSE 0)
                        + (IF Len(frac) >= 2 THEN DigitValue(frac[2]) ELSE 0)
    IN IF int = << >> /\ frac = << >> THEN JsNaN
       ELSE JsNumber(IF signed /\ Head(s0) = "-" THEN 0 - hundredths ELSE hundredths)

isNaN(x) == x.kind = "NaN"

(***************************************************************************)
(* Exercise catalogue of the generic path.                                 *)
(***************************************************************************)
Ex(n, g, t, e) == [name |-> n, muscleGroup |-> g, type |-> t, equipment |-> e]

allExercises == <<
    Ex("Squat Barre", "Jambes", "compound", {"barre-halteres"}),
    Ex("Soulevé de Terre Roumain", "Jambes", "compound", {"barre-halteres"}),
    Ex("Développé Couché", "Pectoraux", "compound", {"barre-halteres"}),
    Ex("Développé Incliné Haltères", "Pectoraux", "compound", {"barre-halteres"}),
    Ex("Tractions", "Dos", "compound", {"poids-corps"}),
    Ex("Tractions australiennes", "Dos", "compound", {"poids-corps"}),
    Ex("Dips", "Triceps", "compound", {"poids-corps"}),
    Ex("Pompes", "Pectoraux", "compound", {}),
    Ex("Rowing Barre", "Dos", "compound", {"barre-halteres"}),
    Ex("Presse à Cuisses", "Jambes", "compound", {"machines-guidees"}),
    Ex("Fentes Haltères", "Jambes", "compound", {"barre-halteres"}),
    Ex("Développé Militaire Barre", "Épaules", "compound", {"barre-halteres"}),
    Ex("Écartés Poulie", "Pectoraux", "isolation", {"machines-guidees"}),
    Ex("Tirage Vertical Machine", "Dos", "compound", {"machines-guidees"}),
    Ex("Élévations Latérales Haltères", "Épaules", "isolation", {"barre-halteres"}),
    Ex("Curl Biceps Barre", "Biceps", "isolation", {"barre-halteres"}),
    Ex("Extension Triceps Poulie Haute", "Triceps", "isolation", {"machines-guidees"}),
    Ex("Crunchs", "Abdos", "isolation", {}),
    Ex("Leg Raises", "Abdos", "isolation", {}),
    Ex("Leg Extension", "Jambes", "isolation", {"machines-guidees"}),
    Ex("Leg Curl", "Jambes", "isolation", {"machines-guidees"}),
    Ex("Calf Raises", "Jambes", "isolation", {}) >>

bigStrengthExercises ==
    <<"Squat Barre", "Soulevé de Terre Roumain", "Développé Couché",
      "Développé Militaire Barre">>

AllGroups == <<"Jambes", "Pectoraux", "Dos", "Épaules", "Biceps", "Triceps", "Abdos">>

splitMuscles(split) ==
    CASE split = "Full Body (Tout le corps)" -> << AllGroups >>
      [] split = "Half Body (Haut / Bas)" ->
            << <<"Pectoraux", "Dos", "Épaules", "Biceps", "Triceps">>,
               <<"Jambes", "Abdos">> >>
      [] split = "Push Pull Legs" ->
            << <<"Pectoraux", "Épaules", "Triceps">>, <<"Dos", "Biceps">>,
               <<"Jambes", "Abdos">> >>
      [] OTHER -> << AllGroups >>

largeMuscleGroups == <<"Jambes", "Pectoraux", "Dos", "Épaules">>

weeklyVolumeCap == 15

baseSets == 3

\* the final slice(0, 8) of a generic day
maxDayExercises == 8

\* the slice(0, 2) applied to each secondary pool
poolSlice == 2

\* number of weeks of either loop (weekNum <= 4, cycleWeeks.length)
numWeeks == 4

baseReps(objectif) ==
    IF objectif = "Sèche / Perte de Gras" THEN "12-15" ELSE "8-12"

(***************************************************************************)
(* Equipment availability: `materiel` is Undefined when the optional field *)
(* is absent, else [kind |-> "array", tags |-> the set of its strings].    *)
(***************************************************************************)
Materiel(tags) == [kind |-> "array", tags |-> tags]

NoMateriel == [kind |-> "undefined", tags |-> {}]

\* mutant: any equipment list counts as matching
isAvailable_AnyMateriel(exercise, materiel) ==
    \/ exercise.equipment = {}
    \/ materiel.kind = "array"

isAvailable(exercise, materiel) ==
    \/ exercise.equipment = {}
    \/ /\ materiel.kind = "array"
       /\ \E eq \in materiel.tags : eq \in exercise.equipment

(***************************************************************************)
(* Generic path: one training day (body of the dayIndex loop).             *)
(***************************************************************************)
selectedSplitMuscles(split) == splitMuscles(split)

numSplitDays(split) == Len(selectedSplitMuscles(split))

\* mutant: the split does not cycle with the day index
targetMuscleGroups_NoCycle(split, d) == selectedSplitMuscles(split)[1]

targetMuscleGroups(split, d) ==
    selectedSplitMuscles(split)[(d % numSplitDays(split)) + 1]

InitialWeeklyVolume == [g \in Range(largeMuscleGroups) |-> 0]

\* mutant: the running total is compared without the sets being added
VolumeAllows_NoBaseSets(volume, group) == ~ (volume[group] > weeklyVolumeCap)

\* the volume-cap test of addExerciseIfPossible: TRUE when the exercise fits
VolumeAllows(volume, group) ==
    ~ (volume[group] + baseSets > weeklyVolumeCap)

\* Variant 2, line 728: the callback of materiel.some reads `ex`, a name
\* that is not in scope, so the first call of the callback throws a
\* ReferenceError.  The callback runs when the exercise needs equipment and
\* materiel is a non-empty array.
referenceError(exercise, materiel) ==
    /\ exercise.equipment # {}
    /\ materiel.kind = "array"
    /\ materiel.tags # {}

\* acc = [dayExercises, addedExerciseNames, weeklyVolume, threw]
addExerciseIfPossible(acc, exercise, materiel) ==
    IF acc.threw THEN acc
    ELSE IF exercise.name \in acc.addedExerciseNames THEN acc
    ELSE IF variant = 2 /\ referenceError(exercise, materiel)
         THEN [acc EXCEPT !.threw = TRUE]
    ELSE IF ~ isAvailable(exercise, materiel) THEN acc
    ELSE IF /\ Includes(largeMuscleGroups, exercise.muscleGroup)
            /\ ~ VolumeAllows(acc.weeklyVolume, exercise.muscleGroup) THEN acc
    ELSE [dayExercises |-> Append(acc.dayExercises, exercise),
          addedExerciseNames |-> acc.addedExerciseNames \cup {exercise.name},
          weeklyVolume |->
              IF Includes(largeMuscleGroups, exercise.muscleGroup)
              THEN [acc.weeklyVolume EXCEPT ![exercise.muscleGroup] = @ + baseSets]
              ELSE acc.weeklyVolume,
          threw |-> FALSE]

\* candidates.forEach(ex => addExerciseIfPossible(ex))
RECURSIVE AddAll(_, _, _)
AddAll(acc, candidates, materiel) ==
    IF candidates = << >> THEN acc
    ELSE AddAll(addExerciseIfPossible(acc, Head(candidates), materiel),
                Tail(candidates), materiel)

potentialExercisesForToday(target) ==
    SelectSeq(allExercises, LAMBDA ex : Includes(target, ex.muscleGroup))

bigStrengthForToday(pool) ==
    SelectSeq(pool, LAMBDA ex : Includes(bigStrengthExercises, ex.name))

inclineBenchForToday(pool) ==
    SelectSeq(pool, LAMBDA ex : ex.name = "Développé Incliné Haltères")

otherCompoundsForToday(pool) ==
    SelectSeq(pool, LAMBDA ex : /\ ex.type = "compound"
                                /\ ~ Includes(bigStrengthExercises, ex.name)
                                /\ ex.name # "Développé Incliné Haltères")

legIsolationsForToday(pool) ==
    SelectSeq(pool, LAMBDA ex : ex.type = "isolation" /\ ex.muscleGroup = "Jambes")

armShoulderIsolationsForToday(pool) ==
    SelectSeq(pool, LAMBDA ex : /\ ex.type = "isolation"
                                /\ ex.muscleGroup \in {"Biceps", "Triceps", "Épaules"})

absIsolationsForToday(pool) ==
    SelectSeq(pool, LAMBDA ex : ex.muscleGroup = "Abdos" /\ ex.type = "isolation")

\* the six ordered additions, as one list of calls to addExerciseIfPossible
orderedAdditions(pool) ==
    bigStrengthForToday(pool)
      \o inclineBenchForToday(pool)
      \o Slice(otherCompoundsForToday(pool), poolSlice)
      \o Slice(legIsolationsForToday(pool), poolSlice)
      \o Slice(armShoulderIsolationsForToday(pool), poolSlice)
      \o Slice(absIsolationsForToday(pool), poolSlice)

\* mutant: the final slice(0, 8) is missing
finalDayExercises_NoSlice(dayExercises) == dayExercises

finalDayExercises(dayExercises) == Slice(dayExercises, maxDayExercises)

rpeNote(ex, w) ==
    IF ex.type = "isolation" THEN "RPE 10"
    ELSE IF Includes(bigStrengthExercises, ex.name)
         THEN CASE w = 1 -> "RPE 6" [] w = 2 -> "RPE 7" [] w = 3 -> "RPE 8"
                [] w = 4 -> "RPE 10" [] OTHER -> "RPE 6"
         ELSE CASE w = 1 -> "RPE 7" [] w = 2 -> "RPE 7.5" [] w = 3 -> "RPE 8"
                [] w = 4 -> "RPE 9" [] OTHER -> "RPE 7"

\* baseSets.toString()
SetsText(n) == IF n = 3 THEN "3" ELSE ToString(n)

formatExercise(ex, w, objectif) ==
    [name |-> ex.name, sets |-> SetsText(baseSets), reps |-> baseReps(objectif),
     notes |-> rpeNote(ex, w)]

\* the day object pushed into week.days
dayNumberOf(d) == d + 1

\* result of one iteration: the day, the tracker after it, how many
\* exercises addExerciseIfPossible accepted before the final slice, and
\* whether the iteration threw
genericDay(v, w, d, volume) ==
    LET target == targetMuscleGroups(v.split, d)
        pool == potentialExercisesForToday(target)
        acc == AddAll([dayExercises |-> << >>, addedExerciseNames |-> {},
                       weeklyVolume |-> volume, threw |-> FALSE],
                      orderedAdditions(pool), v.materiel)
        final == finalDayExercises(acc.dayExercises)
    IN [day |-> [dayNumber |-> dayNumberOf(d),
                 exercises |-> [i \in 1..Len(final) |->
                                   formatExercise(final[i], w, v.objectif)]],
        weeklyVolume |-> acc.weeklyVolume,
        accepted |-> Len(acc.dayExercises),
        threw |-> acc.threw]

(***************************************************************************)
(* 5/3/1 path: floating-point arithmetic.                                  *)
(*                                                                         *)
(* The percentages are binary64 literals: the double nearest to pct/100 is *)
(* pct/100 - DoubleError(pct) / (50 * 2^53).  A product x * (pct/100) that *)
(* is exactly half-way between two multiples of 2.5 kg is computed below   *)
(* the half-way point when the literal's error, scaled by x, exceeds half  *)
(* a unit in the last place of the product; Math.round then rounds down.   *)
(* Away from half-way points the error (below 2^-40 kg) cannot change the  *)
(* rounding, because the exact products are multiples of 1/40 kg.          *)
(***************************************************************************)
DoubleError(pct) ==
    CASE pct = 40 -> -10 [] pct = 50 -> 0   [] pct = 60 -> 10
      [] pct = 65 -> -10 [] pct = 70 -> 20  [] pct = 75 -> 0
      [] pct = 80 -> -20 [] pct = 85 -> 10  [] pct = 90 -> -10
      [] pct = 95 -> 20

\* largest power of two not above x (x >= 1)
RECURSIVE Pow2Floor(_)
Pow2Floor(x) == IF x < 2 THEN 1 ELSE 2 * Pow2Floor(x \div 2)

\* the double x * (pct/100): n is the exact product in 1/40 kg, and low says
\* that the computed double lies strictly below n
Times(x, pct) ==
    LET n == (x * pct) \div 100
    IN [n |-> n,
        low |-> /\ n >= Kg
                /\ x * DoubleError(pct) > 50 * Kg * Pow2Floor(n \div Kg)]

\* Math.round(weight / 2.5) * 2.5 of the double `weight`
roundToNearest2_5(weight) ==
    IF weight.low /\ weight.n % 100 = 50
    THEN (weight.n \div 100) * 100
    ELSE ((weight.n + 50) \div 100) * 100

\* tmSquat ... tmOhp: roundToNearest2_5(oneRM * 0.9); undefined * 0.9 is NaN
trainingMax(oneRM) ==
    IF oneRM.kind = "number" THEN Num(roundToNearest2_5(Times(oneRM.v, 90)))
    ELSE NaN

mainLifts == <<"Squat", "Développé Couché", "Soulevé de Terre", "Overhead Press">>

oneRMOf(v, lift) ==
    CASE lift = "Squat" -> v.squat1RM
      [] lift = "Développé Couché" -> v.bench1RM
      [] lift = "Soulevé de Terre" -> v.deadlift1RM
      [] lift = "Overhead Press" -> v.ohp1RM

trainingMaxes(v, lift) == trainingMax(oneRMOf(v, lift))

\* the guard of the 5/3/1 branch: TRUE when the sentinel Program is returned
MissingOneRM(x) ==
    \/ x.kind = "null"
    \/ x.kind = "number" /\ x.v <= 0

oneRMGuardFails(v) ==
    \E lift \in Range(mainLifts) : MissingOneRM(oneRMOf(v, lift))

\* mutant: the deload week flags its third set too
cycleWeeks_AmrapOnDeload == <<
    [week |-> 1, reps |-> "5", percentages |-> <<65, 75, 85>>, amrapSet |-> 3],
    [week |-> 2, reps |-> "3", percentages |-> <<70, 80, 90>>, amrapSet |-> 3],
    [week |-> 3, reps |-> "5/3/1", percentages |-> <<75, 85, 95>>, amrapSet |-> 3],
    [week |-> 4, reps |-> "5", percentages |-> <<40, 50, 60>>, amrapSet |-> 3] >>

cycleWeeks == <<
    [week |-> 1, reps |-> "5", percentages |-> <<65, 75, 85>>, amrapSet |-> 3],
    [week |-> 2, reps |-> "3", percentages |-> <<70, 80, 90>>, amrapSet |-> 3],
    [week |-> 3, reps |-> "5/3/1", percentages |-> <<75, 85, 95>>, amrapSet |-> 3],
    [week |-> 4, reps |-> "5", percentages |-> <<40, 50, 60>>, amrapSet |-> 0] >>

Acc(n, e) == [name |-> n, equipment |-> e]

accessoryExercises == <<
    Acc("Fentes Haltères", {"barre-halteres"}),
    Acc("Leg Extension", {"machines-guidees"}),
    Acc("Leg Curl", {"machines-guidees"}),
    Acc("Écartés Poulie", {"machines-guidees"}),
    Acc("Dips", {"poids-corps"}),
    Acc("Tirage Vertical Machine", {"machines-guidees"}),
    Acc("Rowing Barre", {"barre-halteres"}),
    Acc("Élévations Latérales Haltères", {"barre-halteres"}),
    Acc("Curl Biceps Barre", {"barre-halteres"}),
    Acc("Extension Triceps Poulie Haute", {"machines-guidees"}),
    Acc("Crunchs", {}),
    Acc("Leg Raises", {}) >>

availableAccessories(materiel) ==
    SelectSeq(accessoryExercises, LAMBDA ex : isAvailable(ex, materiel))

\* dailyLifts, by joursEntrainement
dailyLifts(jours) ==
    IF jours = 1 THEN << mainLifts >>
    ELSE IF jours = 2
         THEN << <<"Squat", "Overhead Press">>,
                 <<"Développé Couché", "Soulevé de Terre">> >>
    ELSE IF jours = 3
         THEN << <<"Squat">>, <<"Développé Couché">>,
                 <<"Soulevé de Terre", "Overhead Press">> >>
    ELSE << <<"Squat">>, <<"Développé Couché">>, <<"Soulevé de Terre">>,
            <<"Overhead Press">> >>

\* dailyLifts[dayIndex] || []
liftsForToday(jours, d) ==
    IF d + 1 <= Len(dailyLifts(jours)) THEN dailyLifts(jours)[d + 1] ELSE << >>

setReps(cycleWeek, setIdx) ==
    IF cycleWeek.reps = "5/3/1"
    THEN (IF setIdx = 0 THEN "5" ELSE IF setIdx = 1 THEN "3" ELSE "1+")
    ELSE cycleWeek.reps

calculatedWeight(tm, percent) ==
    IF tm.kind = "number" THEN Num(roundToNearest2_5(Times(tm.v, percent)))
    ELSE NaN

setsDetails(cycleWeek, tm) ==
    [i \in 1..Len(cycleWeek.percentages) |->
        [setNumber |-> i,
         percentage |-> cycleWeek.percentages[i],
         calculatedWeight |-> calculatedWeight(tm, cycleWeek.percentages[i]),
         reps |-> setReps(cycleWeek, i - 1),
         isAmrap |-> (cycleWeek.amrapSet = i)]]

mainLiftEntry(cycleWeek, liftName, tm) ==
    [name |-> liftName,
     sets |-> SetsText(Len(cycleWeek.percentages)),
     reps |-> cycleWeek.reps,
     notes |-> <<"TM: ", tm, " kg">>,
     setsDetails |-> setsDetails(cycleWeek, tm)]

\* the entries pushed by liftsForToday.forEach
mainLiftEntries(v, w, d) ==
    LET lifts == liftsForToday(v.joursEntrainement, d)
    IN [i \in 1..Len(lifts) |->
           mainLiftEntry(cycleWeeks[w], lifts[i], trainingMaxes(v, lifts[i]))]

\* mutant: every day receives accessory work
accessoryDays_EveryDay(jours) == jours

\* number of leading days that receive accessory work
accessoryDays(jours) == Min(jours, 4)

\* shuffledAccessories.slice(0, 3)
accessorySlice == 3

accessoryEntry(acc) ==
    [name |-> acc.name, sets |-> "3", reps |-> "8-12", notes |-> "Accessoire"]

\* what sort(() => 0.5 - Math.random()) followed by slice(0, 3) can yield:
\* the first entries of any permutation of the pool
shuffledSlices(pool) ==
    LET k == Min(accessorySlice, Len(pool))
    IN { [i \in 1..k |-> pool[f[i]]] :
           f \in {g \in [1..k -> 1..Len(pool)] :
                     \A a, b \in 1..k : a # b => g[a] # g[b]} }

potentialAccessoriesForDay(materiel) ==
    SelectSeq(availableAccessories(materiel),
              LAMBDA acc : ~ Includes(mainLifts, acc.name))

(***************************************************************************)
(* 5/3/1 path of variant 2 (lines 468-662): one entry per working set, the *)
(* weight as text, accessories looked up per main lift.                    *)
(***************************************************************************)
\* `squat1RM || 0`, then 0 unless the one-rep-max is a positive number
calculateTrainingMax(oneRM) ==
    IF oneRM.kind = "number" /\ oneRM.v > 0
    THEN roundToNearest2_5(Times(oneRM.v, 90))
    ELSE 0

calculateWeight(tm, percentage) ==
    IF tm > 0 THEN roundToNearest2_5(Times(tm, percentage)) ELSE 0

mainLiftsV2 ==
    <<"Squat Barre", "Développé Couché", "Soulevé de Terre Roumain",
      "Développé Militaire Barre">>

trainingMaxesV2(v, lift) ==
    CASE lift = "Squat Barre" -> calculateTrainingMax(v.squat1RM)
      [] lift = "Développé Couché" -> calculateTrainingMax(v.bench1RM)
      [] lift = "Soulevé de Terre Roumain" -> calculateTrainingMax(v.deadlift1RM)
      [] lift = "Développé Militaire Barre" -> calculateTrainingMax(v.ohp1RM)

CycleSet(p, r, a) == [percent |-> p, reps |-> r, amrap |-> a]

cycle == <<
    << CycleSet(65, 5, FALSE), CycleSet(75, 5, FALSE), CycleSet(85, 5, TRUE) >>,
    << CycleSet(70, 3, FALSE), CycleSet(80, 3, FALSE), CycleSet(90, 3, TRUE) >>,
    << CycleSet(75, 5, FALSE), CycleSet(85, 3, FALSE), CycleSet(95, 1, TRUE) >>,
    << CycleSet(40, 5, FALSE), CycleSet(50, 5, FALSE), CycleSet(60, 5, FALSE) >> >>

accessoryMap(lift) ==
    CASE lift = "Squat Barre" ->
            <<"Leg Extension", "Leg Curl", "Calf Raises", "Crunchs", "Leg Raises">>
      [] lift = "Développé Couché" ->
            <<"Écartés Poulie", "Extension Triceps Poulie Haute",
              "Élévations Latérales Haltères", "Pompes">>
      [] lift = "Soulevé de Terre Roumain" ->
            <<"Tirage Vertical Machine", "Rowing Barre", "Leg Curl", "Leg Raises",
              "Tractions", "Tractions australiennes">>
      [] lift = "Développé Militaire Barre" ->
            <<"Élévations Latérales Haltères", "Extension Triceps Poulie Haute",
              "Tirage Vertical Machine", "Dips">>
      [] OTHER -> << >>

\* lines 516-518: here the callback reads its own parameter
availableExercises(materiel) ==
    SelectSeq(allExercises, LAMBDA ex : isAvailable(ex, materiel))

availableAccessoryNames(materiel) ==
    LET kept == SelectSeq(availableExercises(materiel),
                          LAMBDA ex :
                             \/ ex.type = "isolation"
                             \/ /\ ex.type = "compound"
                                /\ ex.name \in {"Pompes", "Dips", "Tractions",
                                                "Tractions australiennes"})
    IN [i \in 1..Len(kept) |-> kept[i].name]

daysWithLifts(jours) ==
    IF jours = 1 THEN << mainLiftsV2 >>
    ELSE IF jours = 2
         THEN << <<mainLiftsV2[1], mainLiftsV2[2]>>, <<mainLiftsV2[3], mainLiftsV2[4]>> >>
    ELSE IF jours = 3
         THEN << <<mainLiftsV2[1]>>, <<mainLiftsV2[2]>>,
                 <<mainLiftsV2[3], mainLiftsV2[4]>> >>
    ELSE [i \in 1..jours |-> << mainLiftsV2[((i - 1) % 4) + 1] >>]

mainLiftsForDay(jours, d) ==
    daysWithLifts(jours)[(d % Len(daysWithLifts(jours))) + 1]

\* one entry of setsForWeek.forEach
setEntry(liftName, tm, set, setIndex) ==
    [name |-> liftName,
     sets |-> SetsText(setIndex + 1),
     reps |-> << ToString(set.reps) >> \o (IF set.amrap THEN << "+" >> ELSE << >>),
     notes |-> << ToString(set.percent), "% TM" >>
                 \o (IF set.amrap THEN << " (AMRAP)" >> ELSE << >>),
     weight |-> numberToString((calculateWeight(tm, set.percent) * 100) \div Kg)]

\* mainLiftsForDay.forEach: a lift without a positive training max is skipped
RECURSIVE mainSetEntries(_, _, _)
mainSetEntries(v, w, lifts) ==
    IF lifts = << >> THEN << >>
    ELSE LET tm == trainingMaxesV2(v, Head(lifts))
             setsForWeek == cycle[w]
         IN (IF tm <= 0 THEN << >>
             ELSE [i \in 1..Len(setsForWeek) |->
                      setEntry(Head(lifts), tm, setsForWeek[i], i - 1)])
              \o mainSetEntries(v, w, Tail(lifts))

RECURSIVE potentialAccessoriesV2(_)
potentialAccessoriesV2(lifts) ==
    IF lifts = << >> THEN << >>
    ELSE accessoryMap(Head(lifts)) \o potentialAccessoriesV2(Tail(lifts))

\* Array.from(new Set(names)): first occurrences, in order
RECURSIVE UniqueNames(_)
UniqueNames(names) ==
    IF names = << >> THEN << >>
    ELSE LET front == UniqueNames(SubSeq(names, 1, Len(names) - 1))
             last == names[Len(names)]
         IN IF Includes(front, last) THEN front ELSE Append(front, last)

uniqueAvailableAccessories(lifts, materiel) ==
    SelectSeq(SelectSeq(UniqueNames(potentialAccessoriesV2(lifts)),
                        LAMBDA n : Includes(availableAccessoryNames(materiel), n)),
              LAMBDA n : ~ Includes(mainLiftsV2, n))

maxTotalExercises == 8

accessoryEntryV2(accName) ==
    [name |-> accName, sets |-> "3", reps |-> << "8-12" >>,
     notes |-> << "Accessoire" >>, weight |-> << >>]

\* slice(0, 3).forEach: pushed while the day holds fewer than 8 entries
RECURSIVE addAccessories(_, _)
addAccessories(exercises, names) ==
    IF names = << >> THEN exercises
    ELSE IF Len(exercises) < maxTotalExercises
         THEN addAccessories(Append(exercises, accessoryEntryV2(Head(names))),
                             Tail(names))
         ELSE addAccessories(exercises, Tail(names))

dayV2(v, w, d) ==
    LET lifts == mainLiftsForDay(v.joursEntrainement, d)
    IN [dayNumber |-> dayNumberOf(d),
        exercises |->
            addAccessories(mainSetEntries(v, w, lifts),
                           Slice(uniqueAvailableAccessories(lifts, v.materiel),
                                 accessorySlice))]

(***************************************************************************)
(* Inputs.  experience and dureeMax only reach the title and description   *)
(* and are left out; the split is not read on the 5/3/1 path and the       *)
(* one-rep-max fields are not read on the generic path.                    *)
(***************************************************************************)
GenericObjectifs == {"Prise de Masse", "Sèche / Perte de Gras"}

Objectifs531 == {"Powerlifting", "Powerbuilding"}

Splits == {"Full Body (Tout le corps)", "Half Body (Haut / Bas)", "Push Pull Legs",
           "Autre / Pas de préférence"}

\* joursEntrainement: z.coerce.number().min(1).max(7)
maxJours == 7

EquipmentTags == {"barre-halteres", "machines-guidees", "poids-corps"}

MaterielChoices == {NoMateriel} \cup {Materiel(t) : t \in SUBSET EquipmentTags}

\* one-rep-max values a form can carry: absent, null, non-positive, positive
OneRMValues ==
    {Undefined, Null, Num(0), Num(-100 * Kg), Num(97 * Kg), Num(100 * Kg),
     Num(150 * Kg)}

OneRMs(sq, be, de, oh) ==
    [squat1RM |-> sq, bench1RM |-> be, deadlift1RM |-> de, ohp1RM |-> oh]

\* the four lifts alike, or one lift differing from 100 kg
OneRMChoices ==
    {OneRMs(x, x, x, x) : x \in OneRMValues}
      \cup {OneRMs(x, Num(100 * Kg), Num(100 * Kg), Num(100 * Kg)) : x \in OneRMValues}
      \cup {OneRMs(Num(100 * Kg), x, Num(100 * Kg), Num(100 * Kg)) : x \in OneRMValues}
      \cup {OneRMs(Num(100 * Kg), Num(100 * Kg), x, Num(100 * Kg)) : x \in OneRMValues}
      \cup {OneRMs(Num(100 * Kg), Num(100 * Kg), Num(100 * Kg), x) : x \in OneRMValues}

FormData(o, sp, j, m, r) ==
    [objectif |-> o, split |-> sp, joursEntrainement |-> j, materiel |-> m,
     squat1RM |-> r.squat1RM, bench1RM |-> r.bench1RM,
     deadlift1RM |-> r.deadlift1RM, ohp1RM |-> r.ohp1RM]

GenericInputs ==
    {FormData(o, sp, j, m, OneRMs(Undefined, Undefined, Undefined, Undefined)) :
        o \in GenericObjectifs, sp \in Splits, j \in 1..maxJours,
        m \in MaterielChoices}

StandardOneRMs == OneRMs(Num(100 * Kg), Num(100 * Kg), Num(100 * Kg), Num(100 * Kg))

\* The accessory draw reads materiel only and the main-lift entries read the
\* one-rep-maxes only, so the two are varied one at a time: every equipment
\* set with the standard maxes, every choice of maxes without equipment.
Inputs531 ==
    {FormData(o, "Autre / Pas de préférence", j, m, r) :
        o \in Objectifs531, j \in 1..maxJours,
        m \in MaterielChoices, r \in {StandardOneRMs}}
      \cup
    {FormData(o, "Autre / Pas de préférence", j, m, r) :
        o \in Objectifs531, j \in 1..maxJours,
        m \in {NoMateriel, Materiel({})}, r \in OneRMChoices}

Inputs == GenericInputs \cup Inputs531

(***************************************************************************)
(* Values of the log variables before any call of the log functions.       *)
(***************************************************************************)
Scope(u, p, w, d) == [userId |-> u, programId |-> p, weekNumber |-> w, dayNumber |-> d]

NoRows == [isNull |-> TRUE, rows |-> << >>]

Rows(rows) == [isNull |-> FALSE, rows |-> rows]

\* the { data, error } a save returns
Returned(data, error) == [data |-> data, error |-> error]

NoCall ==
    [op |-> "none", scope |-> Scope("", "", 0, 0), workoutData |-> << >>,
     storeBefore |-> EmptyBag]

NotLoaded == [done |-> FALSE, workoutData |-> << >>]

\* the log variables while the generator runs
LogsIdle ==
    /\ store = EmptyBag
    /\ workoutData = << >>
    /\ loaded = NotLoaded
    /\ logPc = "idle"
    /\ call = NoCall
    /\ logsToInsert = << >>
    /\ result = Returned(NoRows, "null")
    /\ calls = 0

\* userPrograms: null, or the ids of the rows of training_programs
NoPrograms == [isNull |-> TRUE, programs |-> {}]

Programs(ids) == [isNull |-> FALSE, programs |-> ids]

\* the MonEspace page as mounted (lines 68-81): no program selected, nothing
\* being saved, the list of programs not fetched yet
PageIdle ==
    /\ selectedUserProgram = "null"
    /\ isSavingWorkout = FALSE
    /\ pageError = "null"
    /\ saves = << >>
    /\ userPrograms = NoPrograms
    /\ isLoading = TRUE
    /\ fetches = << >>

(***************************************************************************)
(* generateProgramClientSide as a state machine.                           *)
(***************************************************************************)
is531Objectif(o) == o = "Powerlifting" \/ o = "Powerbuilding"

sentinelProgram ==
    [title |-> <<"Erreur de Génération">>, is531 |-> "true", weeks |-> << >>]

emptyProgram531(v) ==
    [title |-> <<"Programme 5/3/1 - ", v.objectif>>, is531 |-> "true",
     weeks |-> << >>]

emptyProgram531V2(v) ==
    [title |-> <<"Programme 5/3/1 - ", v.objectif>>, is531 |-> "undefined",
     weeks |-> << >>]

emptyGenericProgram(v) ==
    [title |-> <<"Programme ", v.objectif>>, is531 |-> "undefined",
     weeks |-> << >>]

NoPrevious ==
    [called |-> FALSE,
     program |-> [title |-> << >>, is531 |-> "undefined", weeks |-> << >>],
     dayAccessories |-> << >>]

\* the locals of a call before its first statement
CallState(v) ==
    /\ values = v
    /\ pc = "start"
    /\ weekNum = 1
    /\ dayIndex = 0
    /\ weeklyVolume = InitialWeeklyVolume
    /\ acceptedToday = 0
    /\ week = << >>
    /\ program = [title |-> << >>, is531 |-> "undefined", weeks |-> << >>]
    /\ dayAccessories = << >>

Init ==
    /\ variant \in {1, 2}
    /\ \E v \in Inputs : CallState(v)
    /\ previous = NoPrevious
    /\ LogsIdle
    /\ PageIdle

\* lines 67-79: the defensive check returns the sentinel Program
ReturnSentinel ==
    /\ variant = 1
    /\ pc = "start"
    /\ is531Objectif(values.objectif)
    /\ oneRMGuardFails(values)
    /\ program' = sentinelProgram
    /\ pc' = "done"
    /\ UNCHANGED <<fixedVars, weekNum, dayIndex, weeklyVolume, acceptedToday, week,
                   dayAccessories, previous>>

\* lines 81-134: training maxes, cycle and the empty program531
Begin531 ==
    /\ variant = 1
    /\ pc = "start"
    /\ is531Objectif(values.objectif)
    /\ ~ oneRMGuardFails(values)
    /\ program' = emptyProgram531(values)
    /\ pc' = "531"
    /\ UNCHANGED <<fixedVars, weekNum, dayIndex, weeklyVolume, acceptedToday, week,
                   dayAccessories, previous>>

\* lines 160-194: the day object and its main-lift entries
DayLifts531 ==
    /\ variant = 1
    /\ pc = "531"
    /\ weekNum <= numWeeks
    /\ dayIndex < values.joursEntrainement
    /\ week' = Append(week, [dayNumber |-> dayNumberOf(dayIndex),
                             exercises |-> mainLiftEntries(values, weekNum, dayIndex)])
    /\ dayAccessories' = << >>
    /\ pc' = "531-accessories"
    /\ UNCHANGED <<fixedVars, weekNum, dayIndex, weeklyVolume, acceptedToday, program,
                   previous>>

\* lines 196-224: the accessory entries of the day, then week.days.push(day)
DayAccessories531 ==
    /\ pc = "531-accessories"
    /\ IF dayIndex < accessoryDays(values.joursEntrainement)
       THEN \E picked \in shuffledSlices(potentialAccessoriesForDay(values.materiel)) :
               dayAccessories' = [i \in 1..Len(picked) |-> accessoryEntry(picked[i])]
       ELSE dayAccessories' = << >>
    /\ dayIndex' = dayIndex + 1
    /\ pc' = "531"
    /\ UNCHANGED <<fixedVars, weekNum, weeklyVolume, acceptedToday, week, program,
                   previous>>

\* variant 2, lines 521-571: no check of the one-rep-maxes; the empty program
Begin531V2 ==
    /\ variant = 2
    /\ pc = "start"
    /\ is531Objectif(values.objectif)
    /\ program' = emptyProgram531V2(values)
    /\ pc' = "531"
    /\ UNCHANGED <<fixedVars, weekNum, dayIndex, weeklyVolume, acceptedToday, week,
                   dayAccessories, previous>>

\* variant 2, lines 598-657: one day, its sets and its accessories
Day531V2 ==
    /\ variant = 2
    /\ pc = "531"
    /\ weekNum <= numWeeks
    /\ dayIndex < values.joursEntrainement
    /\ week' = Append(week, dayV2(values, weekNum, dayIndex))
    /\ dayIndex' = dayIndex + 1
    /\ UNCHANGED <<fixedVars, pc, weekNum, weeklyVolume, acceptedToday, program,
                   dayAccessories, previous>>

\* lines 226 and 659: weeks.push(week), then the next week of the cycle
WeekEnd531 ==
    /\ pc = "531"
    /\ weekNum <= numWeeks
    /\ dayIndex = values.joursEntrainement
    /\ program' = [program EXCEPT
                     !.weeks = Append(@, [weekNumber |-> cycleWeeks[weekNum].week,
                                          days |-> week])]
    /\ weekNum' = weekNum + 1
    /\ dayIndex' = 0
    /\ week' = << >>
    /\ UNCHANGED <<fixedVars, pc, weeklyVolume, acceptedToday, dayAccessories, previous>>

\* lines 229 and 662: return the 5/3/1 program
Return531 ==
    /\ pc = "531"
    /\ weekNum > numWeeks
    /\ pc' = "done"
    /\ UNCHANGED <<fixedVars, weekNum, dayIndex, weeklyVolume, acceptedToday, week,
                   program, dayAccessories, previous>>

\* lines 233-300: the generic program and the first week's tracker
BeginGeneric ==
    /\ pc = "start"
    /\ ~ is531Objectif(values.objectif)
    /\ program' = emptyGenericProgram(values)
    /\ weeklyVolume' = InitialWeeklyVolume
    /\ pc' = "generic"
    /\ UNCHANGED <<fixedVars, weekNum, dayIndex, acceptedToday, week, dayAccessories,
                   previous>>

\* lines 304-420: one day of the generic program
GenericDay ==
    /\ pc = "generic"
    /\ weekNum <= numWeeks
    /\ dayIndex < values.joursEntrainement
    /\ LET r == genericDay(values, weekNum, dayIndex, weeklyVolume)
       IN /\ ~ r.threw
          /\ week' = Append(week, r.day)
          /\ weeklyVolume' = r.weeklyVolume
          /\ acceptedToday' = r.accepted
    /\ dayIndex' = dayIndex + 1
    /\ UNCHANGED <<fixedVars, pc, weekNum, program, dayAccessories, previous>>

\* variant 2, line 728: the ReferenceError leaves the function, no Program
\* is returned
GenericThrow ==
    /\ pc = "generic"
    /\ weekNum <= numWeeks
    /\ dayIndex < values.joursEntrainement
    /\ genericDay(values, weekNum, dayIndex, weeklyVolume).threw
    /\ pc' = "threw"
    /\ UNCHANGED <<fixedVars, weekNum, dayIndex, weeklyVolume, acceptedToday, week,
                   program, dayAccessories, previous>>

\* the tracker a week starts with (lines 299-300)
weekStartVolume(old) == InitialWeeklyVolume

\* line 421: program.weeks.push(week), then the next week and its tracker
GenericWeekEnd ==
    /\ pc = "generic"
    /\ weekNum <= numWeeks
    /\ dayIndex = values.joursEntrainement
    /\ program' = [program EXCEPT
                     !.weeks = Append(@, [weekNumber |-> weekNum, days |-> week])]
    /\ weekNum' = weekNum + 1
    /\ dayIndex' = 0
    /\ week' = << >>
    /\ weeklyVolume' = weekStartVolume(weeklyVolume)
    /\ acceptedToday' = 0
    /\ UNCHANGED <<fixedVars, pc, dayAccessories, previous>>

\* line 424: return program
GenericReturn ==
    /\ pc = "generic"
    /\ weekNum > numWeeks
    /\ pc' = "done"
    /\ UNCHANGED <<fixedVars, weekNum, dayIndex, weeklyVolume, acceptedToday, week,
                   program, dayAccessories, previous>>

Next ==
    \/ ReturnSentinel
    \/ Begin531
    \/ Begin531V2
    \/ DayLifts531
    \/ Day531V2
    \/ DayAccessories531
    \/ WeekEnd531
    \/ Return531
    \/ BeginGeneric
    \/ GenericDay
    \/ GenericThrow
    \/ GenericWeekEnd
    \/ GenericReturn

Spec == Init /\ [][Next]_vars

(***************************************************************************)
(* A second call with the same ProgramFormData, to compare two results.    *)
(***************************************************************************)
CallAgain ==
    /\ pc = "done"
    /\ ~ previous.called
    /\ previous' = [called |-> TRUE, program |-> program,
                    dayAccessories |-> dayAccessories]
    /\ pc' = "start"
    /\ weekNum' = 1
    /\ dayIndex' = 0
    /\ weeklyVolume' = InitialWeeklyVolume
    /\ acceptedToday' = 0
    /\ week' = << >>
    /\ program' = [title |-> << >>, is531 |-> "undefined", weeks |-> << >>]
    /\ dayAccessories' = << >>
    /\ UNCHANGED fixedVars

InputsTwice ==
    {v \in Inputs :
        /\ v.materiel \in {NoMateriel, Materiel({}), Materiel({"poids-corps"})}
        /\ OneRMs(v.squat1RM, v.bench1RM, v.deadlift1RM, v.ohp1RM)
              \in {StandardOneRMs, OneRMs(Null, Null, Null, Null),
                   OneRMs(Undefined, Undefined, Undefined, Undefined)}}

InitTwice ==
    /\ variant \in {1, 2}
    /\ \E v \in InputsTwice : CallState(v)
    /\ previous = NoPrevious
    /\ LogsIdle
    /\ PageIdle

NextTwice ==
    \/ Next
    \/ CallAgain

SpecTwice == InitTwice /\ [][NextTwice]_vars

(***************************************************************************)
(* Workout logs (src/src/utils/workoutLogs.ts).                            *)
(*                                                                         *)
(* The workout_logs table is a bag of rows: the generated id and           *)
(* created_at are left out, so two rows with equal columns are two copies  *)
(* of one row.  A DayWorkoutDataState is the sequence of its entries in    *)
(* insertion order (what Object.entries yields), each entry an exercise    *)
(* name with its sets and its notes.  saveWorkoutLog is stepped at its two *)
(* awaits, and either request can fail.                                    *)
(***************************************************************************)
BaseScope == Scope("u1", "p1", 1, 1)

\* the scope of the session, and one scope differing from it in each column
Scopes ==
    {BaseScope, Scope("u2", "p1", 1, 1), Scope("u1", "p2", 1, 1),
     Scope("u1", "p1", 2, 1), Scope("u1", "p1", 1, 2)}

\* what a save button of the session can address: a day of the program
SaveScopes == {BaseScope, Scope("u1", "p1", 2, 1)}

ExerciseNames == <<"Dips", "Squat">>

SetData(n, w, r, notes) == [set |-> n, weight |-> w, reps |-> r, notes |-> notes]

ExerciseData(name, sets, notes) == [name |-> name, sets |-> sets, notes |-> notes]

InScope(row, scope) ==
    /\ row.user_id = scope.userId
    /\ row.program_id = scope.programId
    /\ row.week = scope.weekNumber
    /\ row.day = scope.dayNumber

\* mutant: the row is stamped with the first week, whatever the scope
logRow_FirstWeek(scope, exerciseName, exerciseData, set) ==
    [user_id |-> scope.userId,
     program_id |-> scope.programId,
     week |-> 1,
     day |-> scope.dayNumber,
     exercise_name |-> exerciseName,
     set_number |-> set.set,
     weight |-> IF set.weight # << >> THEN parseFloat(set.weight) ELSE JsNull,
     reps |-> IF trim(set.reps) = << >> THEN JsNull
              ELSE IF isNaN(parseFloat(set.reps)) THEN JsString(trim(set.reps))
              ELSE parseFloat(set.reps),
     notes |-> IF trim(exerciseData.notes) = << >> THEN JsNull
               ELSE JsString(trim(exerciseData.notes))]

\* lines 70-83: the row of one set
logRow(scope, exerciseName, exerciseData, set) ==
    [user_id |-> scope.userId,
     program_id |-> scope.programId,
     week |-> scope.weekNumber,
     day |-> scope.dayNumber,
     exercise_name |-> exerciseName,
     set_number |-> set.set,
     weight |-> IF set.weight # << >> THEN parseFloat(set.weight) ELSE JsNull,
     reps |-> IF trim(set.reps) = << >> THEN JsNull
              ELSE IF isNaN(parseFloat(set.reps)) THEN JsString(trim(set.reps))
              ELSE parseFloat(set.reps),
     notes |-> IF trim(exerciseData.notes) = << >> THEN JsNull
               ELSE JsString(trim(exerciseData.notes))]

\* mutant: only the weight is tested
hasData_WeightOnly(set) == set.weight # << >>

\* line 69: if (set.weight || set.reps)
hasData(set) == set.weight # << >> \/ set.reps # << >>

\* lines 67-85: exerciseData.sets.forEach
RECURSIVE setRows(_, _, _)
setRows(scope, exerciseData, sets) ==
    IF sets = << >> THEN << >>
    ELSE (IF hasData(Head(sets))
          THEN << logRow(scope, exerciseData.name, exerciseData, Head(sets)) >>
          ELSE << >>)
           \o setRows(scope, exerciseData, Tail(sets))

\* lines 62-86: logsToInsert of a call
RECURSIVE flatten(_, _)
flatten(scope, data) ==
    IF data = << >> THEN << >>
    ELSE setRows(scope, Head(data), Head(data).sets) \o flatten(scope, Tail(data))

\* the request body is JSON: JSON.stringify writes NaN as null
jsonRow(row) == [row EXCEPT !.weight = IF isNaN(@) THEN JsNull ELSE @]

RECURSIVE SeqToBag(_)
SeqToBag(rows) ==
    IF rows = << >> THEN EmptyBag
    ELSE SetToBag({Head(rows)}) (+) SeqToBag(Tail(rows))

\* mutant: the delete removes nothing
deleteRows_Nothing(table, scope) == table

\* .delete().eq('user_id').eq('program_id').eq('week').eq('day')
deleteRows(table, scope) ==
    [row \in {r \in DOMAIN table : ~ InScope(r, scope)} |-> table[row]]

\* .insert(logsToInsert)
insertRows(table, rows) ==
    table (+) SeqToBag([i \in 1..Len(rows) |-> jsonRow(rows[i])])

\* mutant: the query also filters on the week and the day of the session
selectRows_OneDay(table, programId, userId) ==
    [row \in {r \in DOMAIN table : /\ r.user_id = userId
                                   /\ r.program_id = programId
                                   /\ r.week = BaseScope.weekNumber
                                   /\ r.day = BaseScope.dayNumber}
        |-> table[row]]

\* .select('*').eq('user_id', userId).eq('program_id', programId)
selectRows(table, programId, userId) ==
    [row \in {r \in DOMAIN table : r.user_id = userId /\ r.program_id = programId}
        |-> table[row]]

NameRank(name) == CHOOSE i \in 1..Len(ExerciseNames) : ExerciseNames[i] = name

\* .order('exercise_name').order('set_number'): q sorts strictly before r
SortsBefore(q, r) ==
    \/ NameRank(q.exercise_name) < NameRank(r.exercise_name)
    \/ /\ q.exercise_name = r.exercise_name
       /\ q.set_number < r.set_number

\* every sequence the ordered query can return: rows with equal name and
\* set number come in any order
RECURSIVE orderedRows(_)
orderedRows(rows) ==
    IF BagToSet(rows) = {} THEN { << >> }
    ELSE LET firsts == {r \in BagToSet(rows) :
                           \A q \in BagToSet(rows) : ~ SortsBefore(q, r)}
         IN UNION { { << r >> \o rest : rest \in orderedRows(rows (-) SetToBag({r})) } :
                    r \in firsts }

\* value.toString() of a non-null column
valueToString(x) == IF x.kind = "number" THEN numberToString(x.v) ELSE x.text

\* logRow.notes || ''
notesOrEmpty(row) == IF row.notes.kind = "string" THEN row.notes.text ELSE << >>

\* lines 161-166: the set pushed for a row
loadedSet(row) ==
    SetData(row.set_number,
            IF row.weight.kind # "null" THEN valueToString(row.weight) ELSE << >>,
            IF row.reps.kind # "null" THEN valueToString(row.reps) ELSE << >>,
            notesOrEmpty(row))

\* lines 155-171: data.forEach(logRow => ...), acc being workoutData
RECURSIVE groupRows(_, _)
groupRows(acc, rows) ==
    IF rows = << >> THEN acc
    ELSE LET row == Head(rows)
             known == \E i \in 1..Len(acc) : acc[i].name = row.exercise_name
             started == IF known THEN acc
                        ELSE Append(acc, ExerciseData(row.exercise_name, << >>,
                                                      notesOrEmpty(row)))
             i == CHOOSE j \in 1..Len(started) : started[j].name = row.exercise_name
         IN groupRows([started EXCEPT
                          ![i] = ExerciseData(@.name, Append(@.sets, loadedSet(row)),
                                              notesOrEmpty(row))],
                      Tail(rows))

(***************************************************************************)
(* Inputs of the log functions.                                            *)
(***************************************************************************)
\* the most sets an exercise of an edited state holds
MaxSets == 2

\* the number of calls of saveWorkoutLog and getWorkoutLogs in a behaviour
MaxCalls == 2

WeightTexts == { << >>, <<"6", "0">>, <<"6", "2", ".", "5">> }

RepsTexts == { << >>, <<"8">>, <<"8", "-", "1", "2">>, <<" ">> }

NotesTexts == { << >>, <<"o", "k">> }

\* what the sets after the first hold: nothing, a weight with reps, a range
LaterSetTexts ==
    { << << >>, << >> >>, << <<"6", "0">>, <<"8">> >>, << << >>, <<"8", "-", "1", "2">> >> }

\* the sets of an edited exercise are numbered 1, 2, ... in order; the first
\* set holds any weight and reps texts
SetLists ==
    UNION { { [i \in 1..n |-> SetData(i, f[i][1], f[i][2], << >>)] :
                f \in {g \in [1..n -> WeightTexts \X RepsTexts] :
                          \A i \in 2..n : g[i] \in LaterSetTexts} } : n \in 1..MaxSets }

\* an edited state: one exercise with up to MaxSets sets, or the two
\* exercises with one set each
UserWorkoutData ==
    { << ExerciseData(name, sets, notes) >> :
        name \in Range(ExerciseNames), sets \in SetLists, notes \in NotesTexts }
      \cup
    { << ExerciseData(ExerciseNames[2], s, << >>),
         ExerciseData(ExerciseNames[1], t, notes) >> :
        s \in {x \in SetLists : Len(x) = 1 /\ << x[1].weight, x[1].reps >> \in LaterSetTexts},
        t \in {x \in SetLists : Len(x) = 1},
        notes \in NotesTexts }

\* what an earlier session saved for a day
SeedData ==
    << ExerciseData("Squat", << SetData(1, <<"5", "0">>, <<"5">>, << >>) >>,
                    <<"o", "l", "d">>) >>

\* the table after successful saves of SeedData for the scopes of S
RECURSIVE savedFor(_)
savedFor(S) ==
    IF S = {} THEN EmptyBag
    ELSE LET scope == CHOOSE x \in S : TRUE
         IN insertRows(deleteRows(savedFor(S \ {scope}), scope),
                       flatten(scope, SeedData))

SeedStores == { savedFor(S) : S \in { {}, Scopes \ {BaseScope}, Scopes } }

(***************************************************************************)
(* saveWorkoutLog and getWorkoutLogs as a state machine.                   *)
(***************************************************************************)
\* the generator's variables while the log functions run
GeneratorIdle ==
    /\ variant = 1
    /\ values = FormData("Prise de Masse", "Autre / Pas de préférence", 1,
                         NoMateriel, OneRMs(Undefined, Undefined, Undefined, Undefined))
    /\ pc = "idle"
    /\ weekNum = 1
    /\ dayIndex = 0
    /\ weeklyVolume = InitialWeeklyVolume
    /\ acceptedToday = 0
    /\ week = << >>
    /\ program = [title |-> << >>, is531 |-> "undefined", weeks |-> << >>]
    /\ dayAccessories = << >>
    /\ previous = NoPrevious

InitLogs ==
    /\ GeneratorIdle
    /\ PageIdle
    /\ store \in SeedStores
    /\ workoutData \in UserWorkoutData
    /\ loaded = NotLoaded
    /\ logPc = "idle"
    /\ call = NoCall
    /\ logsToInsert = << >>
    /\ result = Returned(NoRows, "null")
    /\ calls = 0

\* the state a caller passes: the one it edited, or the one it loaded
PassedStates == {workoutData} \cup (IF loaded.done THEN {loaded.workoutData} ELSE {})

\* mutant: the rows of the scope are deleted before the length is tested
SaveNothing_DeletesFirst ==
    /\ logPc = "idle"
    /\ calls < MaxCalls
    /\ \E scope \in SaveScopes, data \in PassedStates :
          /\ flatten(scope, data) = << >>
          /\ call' = [op |-> "save", scope |-> scope, workoutData |-> data,
                      storeBefore |-> store]
          /\ store' = deleteRows(store, scope)
    /\ logsToInsert' = << >>
    /\ result' = Returned(NoRows, "null")
    /\ calls' = calls + 1
    /\ UNCHANGED <<genVars, pageVars, workoutData, loaded, logPc>>

\* lines 60-91: nothing flattened, the call returns at once
SaveNothing ==
    /\ logPc = "idle"
    /\ calls < MaxCalls
    /\ \E scope \in SaveScopes, data \in PassedStates :
          /\ flatten(scope, data) = << >>
          /\ call' = [op |-> "save", scope |-> scope, workoutData |-> data,
                      storeBefore |-> store]
    /\ logsToInsert' = << >>
    /\ result' = Returned(NoRows, "null")
    /\ calls' = calls + 1
    /\ UNCHANGED <<genVars, pageVars, store, workoutData, loaded, logPc>>

\* lines 60-97: rows flattened, the delete request is sent
SaveFlatten ==
    /\ logPc = "idle"
    /\ calls < MaxCalls
    /\ \E scope \in SaveScopes, data \in PassedStates :
          /\ flatten(scope, data) # << >>
          /\ call' = [op |-> "save", scope |-> scope, workoutData |-> data,
                      storeBefore |-> store]
          /\ logsToInsert' = flatten(scope, data)
    /\ logPc' = "delete"
    /\ calls' = calls + 1
    /\ UNCHANGED <<genVars, pageVars, store, workoutData, loaded, result>>

\* lines 97-111: the delete succeeded, the insert request is sent
DeleteDone ==
    /\ logPc = "delete"
    /\ store' = deleteRows(store, call.scope)
    /\ logPc' = "insert"
    /\ UNCHANGED <<genVars, pageVars, workoutData, loaded, call, logsToInsert, result,
                   calls>>

\* mutant: the insert is sent although the delete failed
DeleteFailed_InsertsAnyway ==
    /\ logPc = "delete"
    /\ store' = insertRows(store, logsToInsert)
    /\ result' = Returned(NoRows, "deleteError")
    /\ logPc' = "idle"
    /\ UNCHANGED <<genVars, pageVars, workoutData, loaded, call, logsToInsert, calls>>

\* lines 105-110: deleteError
DeleteFailed ==
    /\ logPc = "delete"
    /\ result' = Returned(NoRows, "deleteError")
    /\ logPc' = "idle"
    /\ UNCHANGED <<genVars, pageVars, store, workoutData, loaded, call, logsToInsert,
                   calls>>

\* lines 115-125: the insert succeeded
InsertDone ==
    /\ logPc = "insert"
    /\ store' = insertRows(store, logsToInsert)
    /\ result' = Returned(Rows([i \in 1..Len(logsToInsert) |-> jsonRow(logsToInsert[i])]),
                          "null")
    /\ logPc' = "idle"
    /\ UNCHANGED <<genVars, pageVars, workoutData, loaded, call, logsToInsert, calls>>

\* mutant: the rows the delete removed are put back
InsertFailed_Restores ==
    /\ logPc = "insert"
    /\ store' = call.storeBefore
    /\ result' = Returned(NoRows, "insertError")
    /\ logPc' = "idle"
    /\ UNCHANGED <<genVars, pageVars, workoutData, loaded, call, logsToInsert, calls>>

\* lines 120-122: insertError
InsertFailed ==
    /\ logPc = "insert"
    /\ result' = Returned(NoRows, "insertError")
    /\ logPc' = "idle"
    /\ UNCHANGED <<genVars, pageVars, store, workoutData, loaded, call, logsToInsert,
                   calls>>

\* lines 136-175: getWorkoutLogs of the session's program
GetWorkoutLogs ==
    /\ logPc = "idle"
    /\ calls < MaxCalls
    /\ \E rows \in orderedRows(selectRows(store, BaseScope.programId, BaseScope.userId)) :
          loaded' = [done |-> TRUE, workoutData |-> groupRows(<< >>, rows)]
    /\ call' = [op |-> "load", scope |-> Scope(BaseScope.userId, BaseScope.programId, 0, 0),
                workoutData |-> << >>, storeBefore |-> store]
    /\ calls' = calls + 1
    /\ UNCHANGED <<genVars, pageVars, store, workoutData, logPc, logsToInsert, result>>

\* lines 146-148: the query failed, {} is returned
GetWorkoutLogsFailed ==
    /\ logPc = "idle"
    /\ calls < MaxCalls
    /\ loaded' = [done |-> TRUE, workoutData |-> << >>]
    /\ call' = [op |-> "load", scope |-> Scope(BaseScope.userId, BaseScope.programId, 0, 0),
                workoutData |-> << >>, storeBefore |-> store]
    /\ calls' = calls + 1
    /\ UNCHANGED <<genVars, pageVars, store, workoutData, logPc, logsToInsert, result>>

NextLogs ==
    \/ SaveNothing
    \/ SaveFlatten
    \/ DeleteDone
    \/ DeleteFailed
    \/ InsertDone
    \/ InsertFailed
    \/ GetWorkoutLogs
    \/ GetWorkoutLogsFailed

SpecLogs == InitLogs /\ [][NextLogs]_vars

(***************************************************************************)
(* The MonEspace page (src/src/pages/MonEspace.tsx): the handlers of one   *)
(* logged-in editing session.  workoutData is the page's                   *)
(* currentWorkoutData.  A handler runs to its first await in one step      *)
(* (React applies its state updates before the next event is handled), and *)
(* what follows the await is a step of its own.  handleSaveDayWorkout is   *)
(* modelled statement by statement as the file has it: the await of line   *)
(* 401 suspends the handler, and nothing follows the loop over the day's   *)
(* exercises (lines 450-453).                                              *)
(***************************************************************************)
\* the clicks on save buttons a behaviour makes at most
MaxSaveClicks == 2

\* the clicks on programs of the list a behaviour makes at most
MaxSelects == 2

\* parseInt(text, 10) || 0
parseInt(t) == DigitsValue(LeadingDigits(trimStart(t)))

ProgramExercise(name, sets) == [name |-> name, sets |-> sets]

\* what the page reads of selectedUserProgram: its id and, per week and
\* day, the names and sets texts of the exercises (a generic program)
PageProgram ==
    [id |-> "p1",
     weeks |-> << << << ProgramExercise("Squat", <<"2">>),
                        ProgramExercise("Dips", <<"1">>) >>,
                     << ProgramExercise("Dips", <<"1">>) >> >> >>]

PageExercises ==
    UNION { UNION { Range(PageProgram.weeks[w][d]) : d \in 1..Len(PageProgram.weeks[w]) } :
            w \in 1..Len(PageProgram.weeks) }

\* lines 317-319: the exercises of the day, [] when the week or day is not found
currentDayExercises(weekNumber, dayNumber) ==
    IF weekNumber \in 1..Len(PageProgram.weeks)
         /\ dayNumber \in 1..Len(PageProgram.weeks[weekNumber])
    THEN PageProgram.weeks[weekNumber][dayNumber]
    ELSE << >>

PageRepsTexts == { << >>, <<"8">> }

PageWeightTexts == { << >>, <<"6", "0">> }

PageNotesTexts == { << >>, <<"o", "k">> }

HasEntry(data, name) == \E i \in 1..Len(data) : data[i].name = name

\* prevData[exerciseName] || { sets: [], notes: '' }
EntryOf(data, name) ==
    IF HasEntry(data, name)
    THEN data[CHOOSE i \in 1..Len(data) : data[i].name = name]
    ELSE ExerciseData(name, << >>, << >>)

\* { ...prevData, [exerciseName]: entry }: a known key keeps its place
WithEntry(data, entry) ==
    IF HasEntry(data, entry.name)
    THEN [i \in 1..Len(data) |-> IF data[i].name = entry.name THEN entry ELSE data[i]]
    ELSE Append(data, entry)

\* sets.push(newSet); sets.sort((a, b) => a.set - b.set), the sets before
\* the push being sorted and the new number not among them
RECURSIVE InsertSorted(_, _)
InsertSorted(sets, newSet) ==
    IF sets = << >> THEN << newSet >>
    ELSE IF newSet.set < Head(sets).set THEN << newSet >> \o sets
    ELSE << Head(sets) >> \o InsertSorted(Tail(sets), newSet)

\* lines 255-286
handleWorkoutInputChange(data, exerciseName, setNumber, field, value) ==
    LET exerciseData == EntryOf(data, exerciseName)
        found == \E k \in 1..Len(exerciseData.sets) : exerciseData.sets[k].set = setNumber
        sets == IF found THEN exerciseData.sets
                ELSE InsertSorted(exerciseData.sets, SetData(setNumber, << >>, << >>, << >>))
        setIndex == CHOOSE k \in 1..Len(sets) : sets[k].set = setNumber
        updated == [sets EXCEPT ![setIndex] =
                       IF field = "weight" THEN [@ EXCEPT !.weight = value]
                       ELSE [@ EXCEPT !.reps = value]]
    IN WithEntry(data, [exerciseData EXCEPT !.sets = updated])

\* lines 289-300
handleNotesInputChange(data, exerciseName, value) ==
    WithEntry(data, [EntryOf(data, exerciseName) EXCEPT !.notes = value])

\* lines 708-716: the weight input of set setIndex + 1; the first set's
\* weight is copied to the sets after it
RECURSIVE weightCascade(_, _, _, _, _)
weightCascade(data, exerciseName, i, numberOfSets, newWeight) ==
    IF i >= numberOfSets THEN data
    ELSE weightCascade(handleWorkoutInputChange(data, exerciseName, i + 1, "weight", newWeight),
                       exerciseName, i + 1, numberOfSets, newWeight)

weightOnChange(data, exercise, setIndex, newWeight) ==
    LET first == handleWorkoutInputChange(data, exercise.name, setIndex + 1, "weight",
                                          newWeight)
    IN IF setIndex = 0
       THEN weightCascade(first, exercise.name, 1, parseInt(exercise.sets), newWeight)
       ELSE first

\* mutant: the save buttons are never disabled
saveButtonEnabled_Always == TRUE

\* line 856: disabled={isSavingWorkout}
saveButtonEnabled == ~ isSavingWorkout

\* lines 324-450: the loop over the day's exercises up to its first await.
\* A run is [pc, logsToInsert]: at "awaitLogs" it is suspended in
\* getWorkoutLogs (line 401), at "returned" the loop and the handler ended
RECURSIVE dayExercisesLoop(_, _, _)
dayExercisesLoop(exercises, data, pushed) ==
    IF exercises = << >> THEN [pc |-> "returned", logsToInsert |-> pushed]
    ELSE LET programExercise == Head(exercises)
             savedExerciseData == EntryOf(data, programExercise.name)
             setNumber == parseInt(programExercise.sets)
             hasSet == \E k \in 1..Len(savedExerciseData.sets) :
                          savedExerciseData.sets[k].set = setNumber
             savedSetData ==
                 savedExerciseData.sets[CHOOSE k \in 1..Len(savedExerciseData.sets) :
                                           savedExerciseData.sets[k].set = setNumber]
         IN IF ~ HasEntry(data, programExercise.name)
            THEN dayExercisesLoop(Tail(exercises), data, pushed)
            ELSE IF hasSet /\ (savedSetData.weight # << >> \/ savedSetData.reps # << >>)
            THEN dayExercisesLoop(Tail(exercises), data,
                                  Append(pushed, << programExercise.name, setNumber >>))
            ELSE IF trim(savedExerciseData.notes) # << >>
            THEN [pc |-> "awaitLogs", logsToInsert |-> pushed]
            ELSE dayExercisesLoop(Tail(exercises), data, pushed)

InitPage ==
    /\ GeneratorIdle
    /\ store \in { savedFor({}), savedFor({BaseScope}) }
    /\ workoutData = << >>
    /\ loaded = NotLoaded
    /\ logPc = "idle"
    /\ call = NoCall
    /\ logsToInsert = << >>
    /\ result = Returned(NoRows, "null")
    /\ calls = 0
    /\ selectedUserProgram = "null"
    /\ isSavingWorkout = FALSE
    /\ pageError = "null"
    /\ saves = << >>
    /\ userPrograms = Programs({PageProgram.id})
    /\ isLoading = FALSE
    /\ fetches = << >>

\* lines 557-586 and 617: the list of programs is rendered, and can be clicked
programListShown ==
    /\ ~ isLoading
    /\ ~ (pageError # "null" /\ ~ isSavingWorkout)
    /\ selectedUserProgram = "null"
    /\ ~ userPrograms.isNull

\* the runs of handleSelectProgram suspended in getWorkoutLogs (line 160)
fetchesInFlight == {i \in 1..Len(fetches) : fetches[i].pc = "awaitLogs"}

\* lines 152-160: a click on a program of the list shows the program, clears
\* currentWorkoutData and awaits getWorkoutLogs.  A run is [program, pc,
\* logs, startedDuring]: logs is what getWorkoutLogs returned to it, and
\* startedDuring records the runs that were suspended when it started
HandleSelectProgram ==
    /\ programListShown
    /\ Len(fetches) < MaxSelects
    /\ \E userProgram \in userPrograms.programs :
          /\ selectedUserProgram' = userProgram
          /\ fetches' = Append(fetches, [program |-> userProgram, pc |-> "awaitLogs",
                                         logs |-> << >>,
                                         startedDuring |-> fetchesInFlight])
    /\ workoutData' = << >>
    /\ UNCHANGED <<genVars, store, loaded, logPc, call, logsToInsert, result, calls,
                   isSavingWorkout, pageError, saves, userPrograms, isLoading>>

\* lines 160-166: getWorkoutLogs returns its object (the grouped rows, or {}
\* when the query failed); logs.forEach is not a function, the run ends with
\* a TypeError and setCurrentWorkoutData(initialData) (line 250) is not
\* reached
SelectLogsLoaded ==
    /\ \E i \in fetchesInFlight :
          \E logs \in { groupRows(<< >>, rows) :
                          rows \in orderedRows(selectRows(store, fetches[i].program,
                                                         BaseScope.userId)) }
                       \cup { << >> } :
             /\ fetches' = [fetches EXCEPT ![i].pc = "threw", ![i].logs = logs]
             /\ loaded' = [done |-> TRUE, workoutData |-> logs]
    /\ UNCHANGED <<genVars, store, workoutData, logPc, call, logsToInsert, result, calls,
                   selectedUserProgram, isSavingWorkout, pageError, saves, userPrograms,
                   isLoading>>

\* lines 692-698: a reps input
RepsInput ==
    /\ selectedUserProgram # "null"
    /\ \E exercise \in PageExercises, value \in PageRepsTexts :
          \E currentSetNumber \in 1..parseInt(exercise.sets) :
             workoutData' = handleWorkoutInputChange(workoutData, exercise.name,
                                                     currentSetNumber, "reps", value)
    /\ UNCHANGED <<genVars, store, loaded, logPc, call, logsToInsert, result, calls,
                   selectedUserProgram, isSavingWorkout, pageError, saves, selectVars>>

\* lines 704-719: a weight input
WeightInput ==
    /\ selectedUserProgram # "null"
    /\ \E exercise \in PageExercises, newWeight \in PageWeightTexts :
          \E setIndex \in 0..(parseInt(exercise.sets) - 1) :
             workoutData' = weightOnChange(workoutData, exercise, setIndex, newWeight)
    /\ UNCHANGED <<genVars, store, loaded, logPc, call, logsToInsert, result, calls,
                   selectedUserProgram, isSavingWorkout, pageError, saves, selectVars>>

\* lines 729-736: a notes input
NotesInput ==
    /\ selectedUserProgram # "null"
    /\ \E exercise \in PageExercises, value \in PageNotesTexts :
          workoutData' = handleNotesInputChange(workoutData, exercise.name, value)
    /\ UNCHANGED <<genVars, store, loaded, logPc, call, logsToInsert, result, calls,
                   selectedUserProgram, isSavingWorkout, pageError, saves, selectVars>>

\* lines 304-450: a click on the save button of a day runs
\* handleSaveDayWorkout to its first await, or to its end
ClickSave ==
    /\ selectedUserProgram # "null"
    /\ saveButtonEnabled
    /\ Len(saves) < MaxSaveClicks
    /\ isSavingWorkout' = TRUE
    /\ pageError' = "null"
    /\ \E weekNumber \in 1..Len(PageProgram.weeks) :
          \E dayNumber \in 1..Len(PageProgram.weeks[weekNumber]) :
             saves' = Append(saves,
                             dayExercisesLoop(currentDayExercises(weekNumber, dayNumber),
                                              workoutData, << >>))
    /\ UNCHANGED <<genVars, logVars, selectedUserProgram, selectVars>>

\* lines 401-405: getWorkoutLogs returns its object (the grouped rows, or
\* {} when the query failed); logs.forEach is not a function and the run
\* ends with a TypeError
SaveLogsLoaded ==
    /\ \E i \in 1..Len(saves) :
          /\ saves[i].pc = "awaitLogs"
          /\ saves' = [saves EXCEPT ![i].pc = "threw"]
    /\ \/ \E rows \in orderedRows(selectRows(store, PageProgram.id, BaseScope.userId)) :
             loaded' = [done |-> TRUE, workoutData |-> groupRows(<< >>, rows)]
       \/ loaded' = [done |-> TRUE, workoutData |-> << >>]
    /\ UNCHANGED <<genVars, store, workoutData, logPc, call, logsToInsert, result, calls,
                   selectedUserProgram, isSavingWorkout, pageError, selectVars>>

NextPage ==
    \/ HandleSelectProgram
    \/ SelectLogsLoaded
    \/ RepsInput
    \/ WeightInput
    \/ NotesInput
    \/ ClickSave
    \/ SaveLogsLoaded

SpecPage == InitPage /\ [][NextPage]_vars

(***************************************************************************)
(* The MonEspace page from its mount: the effect that fetches the list of  *)
(* programs (lines 104-147) runs at the mount and whenever the session     *)
(* object changes; it brings the page back to the list while runs of       *)
(* handleSelectProgram may still be suspended.  One fetch of the list is   *)
(* in flight at a time.                                                    *)
(***************************************************************************)
\* the ids of the user's rows of training_programs
TrainingPrograms == {"p1", "p2"}

\* lines 114-117: the session changed, fetchPrograms starts again
FetchPrograms ==
    /\ ~ isLoading
    /\ isLoading' = TRUE
    /\ pageError' = "null"
    /\ userPrograms' = NoPrograms
    /\ selectedUserProgram' = "null"
    /\ UNCHANGED <<genVars, logVars, isSavingWorkout, saves, fetches>>

\* lines 119-137 and 144: the list arrived
ProgramsFetched ==
    /\ isLoading
    /\ userPrograms' = Programs(TrainingPrograms)
    /\ isLoading' = FALSE
    /\ UNCHANGED <<genVars, logVars, selectedUserProgram, isSavingWorkout, pageError,
                   saves, fetches>>

\* lines 127-130 and 144: the query failed
ProgramsFetchFailed ==
    /\ isLoading
    /\ pageError' = "fetchProgramsError"
    /\ isLoading' = FALSE
    /\ UNCHANGED <<genVars, logVars, selectedUserProgram, isSavingWorkout, saves,
                   userPrograms, fetches>>

InitSelect ==
    /\ GeneratorIdle
    /\ store \in { savedFor({}), savedFor(Scopes) }
    /\ workoutData = << >>
    /\ loaded = NotLoaded
    /\ logPc = "idle"
    /\ call = NoCall
    /\ logsToInsert = << >>
    /\ result = Returned(NoRows, "null")
    /\ calls = 0
    /\ PageIdle

NextSelect ==
    \/ FetchPrograms
    \/ ProgramsFetched
    \/ ProgramsFetchFailed
    \/ HandleSelectProgram
    \/ SelectLogsLoaded

SpecSelect == InitSelect /\ [][NextSelect]_vars

(***************************************************************************)
(* Views of the program used by the properties.                            *)
(***************************************************************************)
\* every week built so far: those pushed, and the one under construction
WeeksSoFar == [i \in 1..Len(program.weeks) |-> program.weeks[i].days] \o << week >>

\* every day built so far, on either path
DaysSoFar == UNION { Range(WeeksSoFar[i]) : i \in 1..Len(WeeksSoFar) }

CatalogEntry(name) == CHOOSE ex \in Range(allExercises) : ex.name = name

AccessoryCatalogEntry(name) ==
    CHOOSE ex \in Range(accessoryExercises) : ex.name = name

IsGenericCall == ~ is531Objectif(values.objectif)

\* the one-rep-max is the positive number a valid form carries
PositiveOneRM(x) == x.kind = "number" /\ x.v > 0

AllOneRMsPositive ==
    \A lift \in Range(mainLifts) : PositiveOneRM(oneRMOf(values, lift))

\* the lift a main-lift entry is about, under the names of either variant
LiftKind(name) ==
    CASE name \in {"Squat", "Squat Barre"} -> "squat"
      [] name = "Développé Couché" -> "bench"
      [] name \in {"Soulevé de Terre", "Soulevé de Terre Roumain"} -> "deadlift"
      [] name \in {"Overhead Press", "Développé Militaire Barre"} -> "ohp"

OneRMOfKind(kind) ==
    CASE kind = "squat" -> values.squat1RM
      [] kind = "bench" -> values.bench1RM
      [] kind = "deadlift" -> values.deadlift1RM
      [] kind = "ohp" -> values.ohp1RM

\* variant 1 keeps a day's accessories apart; in variant 2 the entries of a
\* day that carry a weight are its main-lift sets
IsMainEntry(e) == variant = 1 \/ e.weight # << >>

RECURSIVE SumSeq(_)
SumSeq(s) == IF s = << >> THEN 0 ELSE Head(s) + SumSeq(Tail(s))

\* parseInt of the sets text of an entry
SetsNumber(text) == CHOOSE n \in 0..20 : SetsText(n) = text

(***************************************************************************)
(* C1: a Powerlifting/Powerbuilding input with a one-rep-max that is null, *)
(* absent (undefined) or <= 0 yields the sentinel: no week and no day is   *)
(* ever emitted, and the returned Program has weeks = [] and a non-empty   *)
(* title.  The guard of variant 1 lets an absent (undefined) value         *)
(* through, and variant 2 has no guard.                                    *)
(***************************************************************************)
ClaimedMissing(x) == x.kind \in {"null", "undefined"} \/ (x.kind = "number" /\ x.v <= 0)

C1_SentinelOnMissingOneRM ==
    (/\ is531Objectif(values.objectif)
     /\ \E lift \in Range(mainLifts) : ClaimedMissing(oneRMOf(values, lift)))
    => /\ week = << >>
       /\ program.weeks = << >>
       /\ pc = "done" => program.title # << >>

(***************************************************************************)
(* C2: for a generic objective, or a 5/3/1 objective with four positive    *)
(* one-rep-maxes, generateProgramClientSide returns a Program whose weeks  *)
(* are numbered 1, 2, 3, 4 and whose every week has days numbered          *)
(* 1..joursEntrainement, in order.  In variant 2 a generic call with       *)
(* equipment throws a ReferenceError and returns no Program.               *)
(***************************************************************************)
C2_FourWeeksOfNumberedDays ==
    (IsGenericCall \/ AllOneRMsPositive)
    => /\ pc # "threw"
       /\ pc = "done"
          => /\ Len(program.weeks) = 4
             /\ \A w \in 1..Len(program.weeks) :
                   /\ program.weeks[w].weekNumber = w
                   /\ Len(program.weeks[w].days) = values.joursEntrainement
                   /\ \A d \in 1..Len(program.weeks[w].days) :
                         program.weeks[w].days[d].dayNumber = d

(***************************************************************************)
(* C3: in a generic program, in every week and for every large muscle      *)
(* group, the sets of the group's exercises summed over the days of the    *)
(* week never exceed 15.                                                   *)
(***************************************************************************)
GroupSetsOfDay(day, group) ==
    SumSeq([i \in 1..Len(day.exercises) |->
              IF CatalogEntry(day.exercises[i].name).muscleGroup = group
              THEN SetsNumber(day.exercises[i].sets) ELSE 0])

GroupSetsOfWeek(days, group) ==
    SumSeq([d \in 1..Len(days) |-> GroupSetsOfDay(days[d], group)])

C3_WeeklyVolumeCap ==
    IsGenericCall
    => \A i \in 1..Len(WeeksSoFar) :
          \A group \in {"Jambes", "Pectoraux", "Dos", "Épaules"} :
             GroupSetsOfWeek(WeeksSoFar[i], group) <= 15

\* a returned week that reaches the cap for the legs over its seven days
C3_Witness ==
    /\ pc = "done"
    /\ IsGenericCall
    /\ values.joursEntrainement = 7
    /\ GroupSetsOfWeek(program.weeks[1].days, "Jambes") = 15

(***************************************************************************)
(* C4: in a generic program every day holds between 0 and 8 exercises and  *)
(* no exercise name twice.                                                 *)
(***************************************************************************)
C4_DaySizeAndUniqueNames ==
    IsGenericCall
    => \A day \in DaysSoFar :
          /\ Len(day.exercises) <= 8
          /\ \A i, j \in 1..Len(day.exercises) :
                i # j => day.exercises[i].name # day.exercises[j].name

\* a day on which more than 8 exercises were accepted and 8 were kept
C4_Witness ==
    /\ pc = "generic"
    /\ week # << >>
    /\ acceptedToday > 8
    /\ Len(week[Len(week)].exercises) = 8

(***************************************************************************)
(* C5: every generic exercise and every 5/3/1 accessory of a generated     *)
(* program needs no equipment or needs a tag of materiel; with materiel    *)
(* empty or absent only exercises without equipment are selected.          *)
(***************************************************************************)
EquipmentSatisfied(equipment) ==
    \/ equipment = {}
    \/ /\ values.materiel.kind = "array"
       /\ equipment \cap values.materiel.tags # {}

C5_EquipmentRespected ==
    /\ IsGenericCall
       => \A day \in DaysSoFar : \A i \in 1..Len(day.exercises) :
             EquipmentSatisfied(CatalogEntry(day.exercises[i].name).equipment)
    /\ \A i \in 1..Len(dayAccessories) :
          EquipmentSatisfied(AccessoryCatalogEntry(dayAccessories[i].name).equipment)
    /\ (~ IsGenericCall /\ variant = 2)
       => \A day \in DaysSoFar : \A i \in 1..Len(day.exercises) :
             ~ IsMainEntry(day.exercises[i])
             => EquipmentSatisfied(CatalogEntry(day.exercises[i].name).equipment)

\* body-weight equipment alone: Dips is drawn, and nothing needing a bar or
\* a machine
C5_Witness ==
    /\ ~ IsGenericCall
    /\ values.materiel = Materiel({"poids-corps"})
    /\ \E i \in 1..Len(dayAccessories) : dayAccessories[i].name = "Dips"

(***************************************************************************)
(* C6: for a positive one-rep-max r the training max is 0.9 * r rounded    *)
(* half-up to a multiple of 2.5 kg and every calculatedWeight is           *)
(* trainingMax * percentage rounded half-up to a multiple of 2.5 kg        *)
(* (r = 100: 90, 57.5 and 35; r = 150: 135).  In both variants the         *)
(* binary64 product 87.5 * 0.7 is below 61.25 and is rounded down to 60.   *)
(***************************************************************************)
\* n (1/40 kg) to the nearest multiple of 2.5 kg, halves up, in exact arithmetic
HalfUpTo2_5(n) == ((n + 50) \div 100) * 100

ExactTrainingMax(r) == HalfUpTo2_5((r * 90) \div 100)

\* the percentage a set entry of variant 2 names in its notes
PercentOfNotes(notes) ==
    CHOOSE p \in {40, 50, 60, 65, 70, 75, 80, 85, 90, 95} : ToString(p) = notes[1]

C6_ExactHalfUpRounding ==
    ~ IsGenericCall
    => \A day \in DaysSoFar : \A i \in 1..Len(day.exercises) :
          LET e == day.exercises[i]
              r == OneRMOfKind(LiftKind(e.name))
          IN (IsMainEntry(e) /\ PositiveOneRM(r))
             => IF variant = 1
                THEN /\ e.notes[2] = Num(ExactTrainingMax(r.v))
                     /\ \A k \in 1..Len(e.setsDetails) :
                           e.setsDetails[k].calculatedWeight =
                              Num(HalfUpTo2_5((ExactTrainingMax(r.v)
                                                 * e.setsDetails[k].percentage) \div 100))
                ELSE e.weight =
                        numberToString(
                           (HalfUpTo2_5((ExactTrainingMax(r.v) * PercentOfNotes(e.notes))
                                           \div 100) * 100) \div Kg)

(***************************************************************************)
(* C7: in a valid 5/3/1 program the main lifts of day d follow the lookup  *)
(* on joursEntrainement: 1 day, all four; 2 days, {squat, overhead press}  *)
(* then {bench, deadlift}; 3 days, {squat}, {bench}, {deadlift, overhead   *)
(* press}; 4 to 7 days, the one lift at position (d-1) mod 4, so days 5, 6 *)
(* and 7 carry a main lift too.  Variant 1 gives days 5, 6 and 7 no main   *)
(* lift; variant 2 pairs squat with bench on a 2-day week.                 *)
(***************************************************************************)
ClaimedLifts(jours, d) ==
    IF jours = 1 THEN {"squat", "bench", "deadlift", "ohp"}
    ELSE IF jours = 2
         THEN (IF d = 1 THEN {"squat", "ohp"} ELSE {"bench", "deadlift"})
    ELSE IF jours = 3
         THEN (IF d = 1 THEN {"squat"}
               ELSE IF d = 2 THEN {"bench"}
               ELSE {"deadlift", "ohp"})
    ELSE { <<"squat", "bench", "deadlift", "ohp">>[((d - 1) % 4) + 1] }

C7_MainLiftLookup ==
    (~ IsGenericCall /\ AllOneRMsPositive)
    => \A w \in 1..Len(WeeksSoFar) : \A d \in 1..Len(WeeksSoFar[w]) :
          LET entries == WeeksSoFar[w][d].exercises
          IN {LiftKind(entries[i].name) : i \in {k \in 1..Len(entries) :
                                                    IsMainEntry(entries[k])}}
                = ClaimedLifts(values.joursEntrainement, d)

(***************************************************************************)
(* C8: two calls with equal ProgramFormData return equal Programs.         *)
(* Variant 1 draws the 5/3/1 accessories with Math.random, so two calls    *)
(* differ.                                                                 *)
(***************************************************************************)
C8_SameInputSameProgram ==
    (pc = "done" /\ previous.called)
    => /\ program = previous.program
       /\ dayAccessories = previous.dayAccessories

(***************************************************************************)
(* C9: in a generic program every exercise of the day with index i has its *)
(* muscleGroup in entry i mod numSplitDays of the split template: Push     *)
(* Pull Legs cycles {Pectoraux, Épaules, Triceps}, {Dos, Biceps}, {Jambes, *)
(* Abdos}; Half Body alternates the upper groups and {Jambes, Abdos}; Full *)
(* Body and 'Autre / Pas de préférence' target all groups every day.       *)
(***************************************************************************)
ClaimedTemplate(split, i) ==
    IF split = "Push Pull Legs"
    THEN (IF i % 3 = 0 THEN {"Pectoraux", "Épaules", "Triceps"}
          ELSE IF i % 3 = 1 THEN {"Dos", "Biceps"}
          ELSE {"Jambes", "Abdos"})
    ELSE IF split = "Half Body (Haut / Bas)"
    THEN (IF i % 2 = 0 THEN {"Pectoraux", "Dos", "Épaules", "Biceps", "Triceps"}
          ELSE {"Jambes", "Abdos"})
    ELSE {"Jambes", "Pectoraux", "Dos", "Épaules", "Biceps", "Triceps", "Abdos"}

C9_SplitTemplateRespected ==
    IsGenericCall
    => \A w \in 1..Len(WeeksSoFar) : \A d \in 1..Len(WeeksSoFar[w]) :
          \A k \in 1..Len(WeeksSoFar[w][d].exercises) :
             CatalogEntry(WeeksSoFar[w][d].exercises[k].name).muscleGroup
                \in ClaimedTemplate(values.split, d - 1)

\* the fifth day of a Push Pull Legs week is a pull day again
C9_Witness ==
    /\ IsGenericCall
    /\ values.split = "Push Pull Legs"
    /\ Len(week) = 5
    /\ week[5].exercises # << >>
    /\ \A k \in 1..Len(week[5].exercises) :
          CatalogEntry(week[5].exercises[k].name).muscleGroup \in {"Dos", "Biceps"}

(***************************************************************************)
(* C10: after saveWorkoutLog returns with error = null for a scope, the    *)
(* rows stored for that scope are exactly the rows flattened from the      *)
(* workoutData passed to the call.  A call that flattens no row returns    *)
(* error = null without deleting, and the earlier rows of the scope stay.  *)
(***************************************************************************)
\* the rows of the table that belong to a scope
ScopeRows(table, scope) ==
    [row \in {r \in DOMAIN table : InScope(r, scope)} |-> table[row]]

\* the rows a call's workoutData flattens to, as the request body carries them
FlattenedRows ==
    SeqToBag([i \in 1..Len(flatten(call.scope, call.workoutData)) |->
                 jsonRow(flatten(call.scope, call.workoutData)[i])])

SaveReturnedWithoutError ==
    /\ logPc = "idle"
    /\ call.op = "save"
    /\ result.error = "null"

C10_SavedScopeIsFlattenedState ==
    SaveReturnedWithoutError
    => ScopeRows(store, call.scope) = FlattenedRows

(***************************************************************************)
(* C10, amended: after saveWorkoutLog returns with error = null and with   *)
(* the inserted rows as data (at least one row was flattened, so the       *)
(* delete and the insert ran), the rows stored for the scope are exactly   *)
(* the rows flattened from the workoutData passed to the call.             *)
(***************************************************************************)
C10_SavedScopeIsFlattenedStateWhenRowsInserted ==
    (SaveReturnedWithoutError /\ ~ result.data.isNull)
    => ScopeRows(store, call.scope) = FlattenedRows

\* a save that replaced the rows an earlier save had stored for the scope
C10_Witness ==
    /\ SaveReturnedWithoutError
    /\ ~ result.data.isNull
    /\ ScopeRows(call.storeBefore, call.scope) # EmptyBag
    /\ ScopeRows(store, call.scope) # ScopeRows(call.storeBefore, call.scope)

(***************************************************************************)
(* C11: in every state of the table that successful calls of               *)
(* saveWorkoutLog and getWorkoutLogs reach, the state passed to a save     *)
(* being the edited one or the one a preceding load returned, no two       *)
(* stored rows share (user_id, program_id, week, day, exercise_name,       *)
(* set_number).                                                            *)
(***************************************************************************)
RowKey(row) ==
    << row.user_id, row.program_id, row.week, row.day, row.exercise_name,
       row.set_number >>

C11_RowKeyUnique ==
    \A q \in DOMAIN store :
        /\ store[q] = 1
        /\ \A r \in DOMAIN store : RowKey(q) = RowKey(r) => q = r

(***************************************************************************)
(* C12: round trip.  Starting from an empty table, saving a                *)
(* DayWorkoutDataState for a day and then loading the logs of the program  *)
(* yields, for every set that had a non-empty weight or reps, the          *)
(* (exerciseName, setNumber, weight, reps) that was saved, and nothing for *)
(* a set whose weight and reps were both empty.                            *)
(***************************************************************************)
SetTuple(name, set) == << name, set.set, set.weight, set.reps >>

\* the tuples of the sets that carry a weight or reps
EnteredTuples(data) ==
    UNION { { SetTuple(data[i].name, data[i].sets[j]) :
                j \in {k \in 1..Len(data[i].sets) :
                          data[i].sets[k].weight # << >> \/ data[i].sets[k].reps # << >>} } :
            i \in 1..Len(data) }

AllTuples(data) ==
    UNION { { SetTuple(data[i].name, data[i].sets[j]) : j \in 1..Len(data[i].sets) } :
            i \in 1..Len(data) }

\* the edited state was saved into an empty table (the table holds the
\* inserted rows and nothing else), then the program's logs were loaded
SavedToEmptyTableThenLoaded ==
    /\ logPc = "idle"
    /\ calls = 2
    /\ call.op = "load"
    /\ result.error = "null"
    /\ ~ result.data.isNull
    /\ store = SeqToBag(result.data.rows)
    /\ loaded.done
    /\ loaded.workoutData # << >>

C12_SaveThenLoadRoundTrip ==
    SavedToEmptyTableThenLoaded
    => AllTuples(loaded.workoutData) = EnteredTuples(workoutData)

(***************************************************************************)
(* C13: idempotence.  Saving the same DayWorkoutDataState twice in a row   *)
(* for the same scope, both saves succeeding, leaves the table with the    *)
(* same rows as saving it once.  Stated on the step that ends the second   *)
(* save: when the insert of a save succeeds and the save before it had     *)
(* succeeded with the same rows (result still holds what that save         *)
(* returned), the table after the step is the table the second save        *)
(* started from.                                                           *)
(***************************************************************************)
jsonRows(rows) == [i \in 1..Len(rows) |-> jsonRow(rows[i])]

SecondInsertOfSameRowsSucceeds ==
    /\ logPc = "insert"
    /\ logPc' = "idle"
    /\ result'.error = "null"
    /\ result.error = "null"
    /\ ~ result.data.isNull
    /\ result.data.rows = jsonRows(logsToInsert)

C13_SaveTwiceIsSaveOnce ==
    [][SecondInsertOfSameRowsSucceeds => store' = call.storeBefore]_vars

\* the second of two successful saves of the edited state for one scope has
\* returned, and the scope holds the rows both saves inserted
C13_Witness ==
    /\ logPc = "idle"
    /\ calls = 2
    /\ ~ loaded.done
    /\ call.op = "save"
    /\ call.workoutData = workoutData
    /\ result.error = "null"
    /\ ~ result.data.isNull
    /\ ScopeRows(call.storeBefore, call.scope) = SeqToBag(result.data.rows)
    /\ store = call.storeBefore

(***************************************************************************)
(* C14: on save, a set's reps is stored as a number only when the entered  *)
(* text is fully numeric; any other non-empty text, such as the range      *)
(* "8-12", is stored unchanged as the original string; an empty reps is    *)
(* stored as null.  (A text of blanks only is read as empty here.)         *)
(***************************************************************************)
\* digits with at most one decimal point, and at least one digit
FullyNumeric(t) ==
    /\ \A i \in 1..Len(t) : IsDigit(t[i]) \/ t[i] = "."
    /\ \E i \in 1..Len(t) : IsDigit(t[i])
    /\ Cardinality({i \in 1..Len(t) : t[i] = "."}) <= 1

ClaimedReps(t) ==
    IF trim(t) = << >> THEN JsNull
    ELSE IF FullyNumeric(trim(t)) THEN parseFloat(t)
    ELSE JsString(t)

\* the rows of logsToInsert are those of the call's workoutData
RowsFlattenedForCall == call.op = "save" /\ logPc \in {"delete", "insert", "idle"}

C14_RepsCoercion ==
    RowsFlattenedForCall
    => \A i \in 1..Len(call.workoutData) :
          \A j \in 1..Len(call.workoutData[i].sets) :
             LET set == call.workoutData[i].sets[j]
             IN (set.weight # << >> \/ set.reps # << >>)
                => \E k \in 1..Len(logsToInsert) :
                      /\ logsToInsert[k].exercise_name = call.workoutData[i].name
                      /\ logsToInsert[k].set_number = set.set
                      /\ logsToInsert[k].reps = ClaimedReps(set.reps)

(***************************************************************************)
(* C15: saveWorkoutLog builds exactly one row for each set of each         *)
(* exercise of workoutData whose weight or reps is non-empty and no row    *)
(* for a set whose weight and reps are both empty; a call all of whose     *)
(* sets are dropped returns no error.                                      *)
(***************************************************************************)
\* the positions <<i, j>> of the sets of data that carry a weight or reps
EnteredSets(data) ==
    { p \in UNION { {<< i, j >> : j \in 1..Len(data[i].sets)} : i \in 1..Len(data) } :
        data[p[1]].sets[p[2]].weight # << >> \/ data[p[1]].sets[p[2]].reps # << >> }

\* row k of logsToInsert is the row of the set at position p
RowOfSet(k, p) ==
    /\ logsToInsert[k].exercise_name = call.workoutData[p[1]].name
    /\ logsToInsert[k].set_number = call.workoutData[p[1]].sets[p[2]].set

C15_OneRowPerEnteredSet ==
    RowsFlattenedForCall
    => /\ Len(logsToInsert) = Cardinality(EnteredSets(call.workoutData))
       /\ \A p \in EnteredSets(call.workoutData) :
             \E k \in 1..Len(logsToInsert) : RowOfSet(k, p)
       /\ \A k \in 1..Len(logsToInsert) :
             \E p \in EnteredSets(call.workoutData) : RowOfSet(k, p)
       /\ (logPc = "idle" /\ EnteredSets(call.workoutData) = {})
             => result = Returned(NoRows, "null")

\* a save of a state holding a set with reps only next to an empty set
C15_Witness ==
    /\ RowsFlattenedForCall
    /\ \E i \in 1..Len(call.workoutData) :
          /\ \E j \in 1..Len(call.workoutData[i].sets) :
                LET set == call.workoutData[i].sets[j]
                IN set.weight = << >> /\ set.reps # << >>
          /\ \E j \in 1..Len(call.workoutData[i].sets) :
                LET set == call.workoutData[i].sets[j]
                IN set.weight = << >> /\ set.reps = << >>
    /\ Len(logsToInsert) = 1

(***************************************************************************)
(* C16: if the delete step of saveWorkoutLog fails, no insert is           *)
(* attempted, the table is left exactly as it was before the call, and the *)
(* call returns { data: null, error: the deletion error }.                 *)
(***************************************************************************)
SaveReturnedDeleteError ==
    /\ logPc = "idle"
    /\ call.op = "save"
    /\ result.error = "deleteError"

C16_DeleteErrorLeavesTable ==
    SaveReturnedDeleteError
    => /\ store = call.storeBefore
       /\ result = Returned(NoRows, "deleteError")

\* the delete of a save over stored rows of its scope failed
C16_Witness ==
    /\ SaveReturnedDeleteError
    /\ logsToInsert # << >>
    /\ ScopeRows(store, call.scope) # EmptyBag
    /\ ScopeRows(store, call.scope) # FlattenedRows

(***************************************************************************)
(* C17: if the delete step of saveWorkoutLog succeeds and the insert step  *)
(* then fails, the call returns the insert error, the table holds no row   *)
(* of the scope (userId, programId, weekNumber, dayNumber), the rows the   *)
(* day had before are not restored, and the rows of every other scope are  *)
(* unchanged.                                                              *)
(***************************************************************************)
SaveReturnedInsertError ==
    /\ logPc = "idle"
    /\ call.op = "save"
    /\ result.error = "insertError"

OtherScopeRows(table, scope) ==
    [row \in {r \in DOMAIN table : ~ InScope(r, scope)} |-> table[row]]

C17_InsertErrorLeavesScopeEmpty ==
    SaveReturnedInsertError
    => /\ result = Returned(NoRows, "insertError")
       /\ ScopeRows(store, call.scope) = EmptyBag
       /\ OtherScopeRows(store, call.scope) = OtherScopeRows(call.storeBefore, call.scope)

\* the insert failed for a day that held rows, next to rows of other scopes
C17_Witness ==
    /\ SaveReturnedInsertError
    /\ ScopeRows(call.storeBefore, call.scope) # EmptyBag
    /\ OtherScopeRows(store, call.scope) # EmptyBag
    /\ store # call.storeBefore

(***************************************************************************)
(* C18: when workoutData contains no set with a non-empty weight or reps,  *)
(* saveWorkoutLog issues neither a delete nor an insert: the table, with   *)
(* the rows saved earlier for that scope, is unchanged and the call        *)
(* returns { data: null, error: null }.                                    *)
(***************************************************************************)
SaveOfNoEnteredSet ==
    /\ call.op = "save"
    /\ EnteredSets(call.workoutData) = {}

C18_NothingToSaveLeavesTable ==
    SaveOfNoEnteredSet
    => /\ logPc = "idle"
       /\ store = call.storeBefore
       /\ result = Returned(NoRows, "null")

\* a save of empty sets for a day that holds rows of an earlier save
C18_Witness ==
    /\ SaveOfNoEnteredSet
    /\ call.workoutData # << >>
    /\ ScopeRows(store, call.scope) # EmptyBag

(***************************************************************************)
(* C19: every triggered save eventually leaves the Saving state.  After    *)
(* handleSaveDayWorkout has set isSavingWorkout to true, the session       *)
(* returns to Ready (isSavingWorkout = false, the save button enabled      *)
(* again) or reaches Error, whether the save succeeds or fails.  Stated on *)
(* the end of the run: once a run of handleSaveDayWorkout has returned or  *)
(* thrown, and no other run is under way, the page is not saving or shows  *)
(* an error.                                                               *)
(***************************************************************************)
SavesInFlight == {i \in 1..Len(saves) : saves[i].pc = "awaitLogs"}

C19_SaveLeavesSavingState ==
    (saves # << >> /\ SavesInFlight = {})
    => (isSavingWorkout = FALSE \/ pageError # "null")

WorkingSet(n, p, a) == [setNumber |-> n, percentage |-> p, isAmrap |-> a]

ClaimedPercentages(w) ==
    CASE w = 1 -> <<65, 75, 85>>
      [] w = 2 -> <<70, 80, 90>>
      [] w = 3 -> <<75, 85, 95>>
      [] w = 4 -> <<40, 50, 60>>

ClaimedWorkingSets(w) ==
    [n \in 1..3 |-> WorkingSet(n, ClaimedPercentages(w)[n], w \in 1..3 /\ n = 3)]

\* the working sets a program describes for the main lift `name` on `day`
DescribedSets(day, name) ==
    LET entries == SelectSeq(day.exercises,
                             LAMBDA e : e.name = name /\ IsMainEntry(e))
    IN IF variant = 1
       THEN IF Len(entries) # 1 THEN << >>
            ELSE [k \in 1..Len(entries[1].setsDetails) |->
                    WorkingSet(entries[1].setsDetails[k].setNumber,
                               entries[1].setsDetails[k].percentage,
                               entries[1].setsDetails[k].isAmrap)]
       ELSE [k \in 1..Len(entries) |->
               WorkingSet(SetsNumber(entries[k].sets),
                          PercentOfNotes(entries[k].notes),
                          \/ Len(entries[k].notes) > 2
                          \/ entries[k].reps[Len(entries[k].reps)] = "+")]

C21_ThreeWorkingSetsPerMainLift ==
    (~ IsGenericCall /\ AllOneRMsPositive)
    => \A w \in 1..Len(WeeksSoFar) : \A d \in 1..Len(WeeksSoFar[w]) :
          LET day == WeeksSoFar[w][d]
          IN \A i \in 1..Len(day.exercises) :
                IsMainEntry(day.exercises[i])
                => DescribedSets(day, day.exercises[i].name) = ClaimedWorkingSets(w)

\* a returned valid program whose deload week carries a main lift
C21_Witness ==
    /\ ~ IsGenericCall
    /\ AllOneRMsPositive
    /\ pc = "done"
    /\ Len(program.weeks) = numWeeks
    /\ \E d \in 1..Len(program.weeks[4].days) :
          \E i \in 1..Len(program.weeks[4].days[d].exercises) :
             IsMainEntry(program.weeks[4].days[d].exercises[i])

(***************************************************************************)
(* C22: on every day of a generic program the selection respects the       *)
(* per-category caps in priority order: at most 2 powerlifting-main (big   *)
(* strength) exercises, at most 3 secondary compounds, at most 2 heavy     *)
(* isolations and at most 2 light isolations, the categories appearing in  *)
(* that order.  The catalogue carries no category: the categories are read *)
(* from the pools of the code (big strength; the other compounds; the leg  *)
(* isolations; the remaining isolations).  The big-strength pool is added  *)
(* whole, without a slice.                                                 *)
(***************************************************************************)
Category(ex) ==
    IF Includes(bigStrengthExercises, ex.name) THEN "powerlifting-main"
    ELSE IF ex.type = "compound" THEN "secondary-compound"
    ELSE IF ex.muscleGroup = "Jambes" THEN "heavy-isolation"
    ELSE "light-isolation"

CategoryRank(c) ==
    CASE c = "powerlifting-main" -> 1
      [] c = "secondary-compound" -> 2
      [] c = "heavy-isolation" -> 3
      [] c = "light-isolation" -> 4

CategoryCap(c) == IF c = "secondary-compound" THEN 3 ELSE 2

Categories ==
    {"powerlifting-main", "secondary-compound", "heavy-isolation", "light-isolation"}

CategoryCount(day, c) ==
    Cardinality({i \in 1..Len(day.exercises) :
                    Category(CatalogEntry(day.exercises[i].name)) = c})

C22_CategoryCaps ==
    IsGenericCall
    => \A day \in DaysSoFar :
          /\ \A c \in Categories : CategoryCount(day, c) <= CategoryCap(c)
          /\ \A i, j \in 1..Len(day.exercises) :
                i < j => CategoryRank(Category(CatalogEntry(day.exercises[i].name)))
                           <= CategoryRank(Category(CatalogEntry(day.exercises[j].name)))

(***************************************************************************)
(* C23: in the generic path the per-category caps apply to the             *)
(* equipment-filtered pool: whenever an exercise that is available with    *)
(* materiel targets the day's muscle groups, its category's cap is not     *)
(* reached by the selected exercises and the weekly volume cap allows it,  *)
(* the exercise is selected.  Read on the day just built, with the tracker *)
(* as that day leaves it.  The code slices each pool to its first two      *)
(* entries before it tests availability.                                   *)
(***************************************************************************)
DayJustBuilt == pc = "generic" /\ week # << >> /\ dayIndex = Len(week)

SelectedNames(day) == {day.exercises[i].name : i \in 1..Len(day.exercises)}

VolumeStillAllows(ex) ==
    Includes(largeMuscleGroups, ex.muscleGroup)
    => VolumeAllows(weeklyVolume, ex.muscleGroup)

C23_CapsOnAvailablePool ==
    (IsGenericCall /\ DayJustBuilt)
    => LET day == week[Len(week)]
           target == targetMuscleGroups(values.split, dayIndex - 1)
       IN \A ex \in Range(allExercises) :
             ( /\ isAvailable(ex, values.materiel)
               /\ Includes(target, ex.muscleGroup)
               /\ CategoryCount(day, Category(ex)) < CategoryCap(Category(ex))
               /\ VolumeStillAllows(ex) )
             => ex.name \in SelectedNames(day)

(***************************************************************************)
(* C24: in a valid 5/3/1 program accessory entries appear only on days     *)
(* that carry at least one main lift; on each such day there are at most 4 *)
(* accessory entries, their names are pairwise distinct, none of them is   *)
(* one of the four main-lift names, and each has sets "3", reps "8-12" and *)
(* notes "Accessoire".  In variant 1 the accessories of the day just built *)
(* are in dayAccessories; in variant 2 they are the entries of the day     *)
(* that carry no weight.                                                   *)
(***************************************************************************)
MainLiftNames == Range(mainLifts) \cup Range(mainLiftsV2)

IsAccessoryEntry(e) ==
    IF variant = 1
    THEN e.sets = "3" /\ e.reps = "8-12" /\ e.notes = "Accessoire"
    ELSE e.sets = "3" /\ e.reps = << "8-12" >> /\ e.notes = << "Accessoire" >>

AccessoriesAsClaimed(mainEntries, accessories) ==
    /\ accessories # << >> => mainEntries # << >>
    /\ Len(accessories) <= 4
    /\ \A i, j \in 1..Len(accessories) :
          i # j => accessories[i].name # accessories[j].name
    /\ \A i \in 1..Len(accessories) :
          /\ accessories[i].name \notin MainLiftNames
          /\ IsAccessoryEntry(accessories[i])

\* variant 1: the day whose accessories have just been drawn
AccessoriesDrawn == variant = 1 /\ pc = "531" /\ dayIndex >= 1 /\ Len(week) = dayIndex

C24_WitnessRestDay ==
    /\ ~ IsGenericCall
    /\ AllOneRMsPositive
    /\ AccessoriesDrawn
    /\ dayIndex = 5
    /\ week[5].exercises = << >>
    /\ dayAccessories = << >>

\* variant 2: a day with a main lift and three accessory entries
C24_WitnessV2 ==
    /\ ~ IsGenericCall
    /\ AllOneRMsPositive
    /\ variant = 2
    /\ \E day \in DaysSoFar :
          Len(SelectSeq(day.exercises, LAMBDA e : ~ IsMainEntry(e))) = 3

(***************************************************************************)
(* C25: getWorkoutLogs(programId, userId) returns one entry per distinct   *)
(* exercise_name among the stored rows of that user and program; the       *)
(* entry's sets list holds one element for every such row of every week    *)
(* and every day, and the entry's exercise-level notes equal the notes of  *)
(* the last row processed for that exercise name (the row of the last      *)
(* element of sets).  Stated of every step in which the query succeeds.    *)
(***************************************************************************)
BagOver(table, rows) == [r \in rows |-> table[r]]

RowsNamed(table, name) ==
    BagOver(table, {r \in DOMAIN table : r.exercise_name = name})

\* sets holds loadedSet(r) once for every copy of a row r of `rows`
OneSetPerRow(sets, rows) ==
    /\ Len(sets) = BagCardinality(rows)
    /\ \A r \in DOMAIN rows :
          Cardinality({k \in 1..Len(sets) : sets[k] = loadedSet(r)})
             = BagCardinality(BagOver(rows, {q \in DOMAIN rows :
                                               loadedSet(q) = loadedSet(r)}))

\* the stored rows of the session's user and program, of any week and day
RowsOfUserAndProgram(table) ==
    BagOver(table, {r \in DOMAIN table : /\ r.user_id = BaseScope.userId
                                         /\ r.program_id = BaseScope.programId})

LoadedAsClaimed(data, table) ==
    LET rows == RowsOfUserAndProgram(table)
    IN /\ {data[i].name : i \in 1..Len(data)} = {r.exercise_name : r \in DOMAIN rows}
       /\ \A i, j \in 1..Len(data) : i # j => data[i].name # data[j].name
       /\ \A i \in 1..Len(data) :
             /\ OneSetPerRow(data[i].sets, RowsNamed(rows, data[i].name))
             /\ data[i].notes = data[i].sets[Len(data[i].sets)].notes

C25_LoadGroupsEveryRowByName ==
    [][(calls' = calls + 1 /\ call'.op = "load" /\ GetWorkoutLogs)
         => LoadedAsClaimed(loaded'.workoutData, store)]_vars

\* a load that returned an exercise with rows of two weeks whose notes differ
C25_Witness ==
    /\ call.op = "load"
    /\ loaded.done
    /\ \E i \in 1..Len(loaded.workoutData) :
          LET e == loaded.workoutData[i]
          IN /\ Len(e.sets) >= 2
             /\ e.sets[1].notes # e.sets[2].notes
             /\ Cardinality({r \in DOMAIN store : r.exercise_name = e.name
                                                  /\ r.user_id = BaseScope.userId
                                                  /\ r.program_id = BaseScope.programId
                                                  /\ r.week = 2}) > 0

(***************************************************************************)
(* C26: in the generic path the weekly volume tracker is exact: at the end *)
(* of each week, for every large muscle group, the tracker value equals    *)
(* the sum of the sets counts of that group's exercises present in the     *)
(* week that is returned.  addExerciseIfPossible counts an exercise when   *)
(* it accepts it; the final slice(0, 8) then drops the ninth and later     *)
(* accepted exercises from the day.                                        *)
(***************************************************************************)
WeekComplete ==
    pc = "generic" /\ weekNum <= numWeeks /\ dayIndex = values.joursEntrainement

C26_TrackerEqualsReturnedSets ==
    (IsGenericCall /\ WeekComplete)
    => \A g \in Range(largeMuscleGroups) : weeklyVolume[g] = GroupSetsOfWeek(week, g)

(***************************************************************************)
(* C27: every row that saveWorkoutLog inserts carries data: its weight is  *)
(* non-null or its reps is non-null, for every content of the weight and   *)
(* reps input strings (including whitespace-only reps with an empty        *)
(* weight).  The filter of line 69 tests the untrimmed strings, the row is *)
(* built from the trimmed reps.                                            *)
(***************************************************************************)
CarriesData(row) == row.weight.kind # "null" \/ row.reps.kind # "null"

C27_InsertedRowsCarryData ==
    /\ RowsFlattenedForCall
       => \A i \in 1..Len(logsToInsert) : CarriesData(jsonRow(logsToInsert[i]))
    /\ \A row \in DOMAIN store : CarriesData(row)

(***************************************************************************)
(* C28: saveWorkoutLog for scope (userId, programId, weekNumber,           *)
(* dayNumber) never deletes, inserts or changes a row whose user_id,       *)
(* program_id, week or day differs from that scope, on the success path    *)
(* and on every error path: at every point of a call the rows outside the  *)
(* scope are the rows that were there when the call started.               *)
(***************************************************************************)
C28_SaveLeavesOtherScopes ==
    call.op = "save"
    => OtherScopeRows(store, call.scope) = OtherScopeRows(call.storeBefore, call.scope)

\* a save that replaced the rows of its scope beside rows of other scopes
C28_Witness ==
    /\ call.op = "save"
    /\ logPc = "idle"
    /\ result.error = "null"
    /\ ~ result.data.isNull
    /\ store # call.storeBefore
    /\ ScopeRows(call.storeBefore, call.scope) # EmptyBag
    /\ OtherScopeRows(store, call.scope) # EmptyBag

(***************************************************************************)
(* C29: loading is side-effect free with respect to a later save: calling  *)
(* getWorkoutLogs(programId, userId) and then saveWorkoutLog with the      *)
(* unedited loaded state for a scope (week, day) leaves the stored rows of *)
(* that scope unchanged, even when the program also has rows stored for    *)
(* other weeks or days.  The loaded state merges the rows of every week    *)
(* and day, and the save stamps all of them with its one scope.            *)
(***************************************************************************)
LoadedStateSavedBack ==
    /\ calls = 2
    /\ loaded.done
    /\ call.op = "save"
    /\ call.workoutData = loaded.workoutData
    /\ logPc = "idle"
    /\ result.error = "null"

C29_SaveOfLoadedStateChangesNothing ==
    LoadedStateSavedBack
    => ScopeRows(store, call.scope) = ScopeRows(call.storeBefore, call.scope)

(***************************************************************************)
(* C30: when the user selects program A and then program B before A's log  *)
(* fetch has resolved, then once both fetches have completed               *)
(* currentWorkoutData holds the logs of the currently selected program B,  *)
(* whatever the order in which the two fetches resolve.  Stated of the     *)
(* latest run of handleSelectProgram, started while a run for another      *)
(* program was suspended, once no run is suspended any more.               *)
(***************************************************************************)
SelectedDuringFetchOfAnother(b) ==
    \E a \in fetches[b].startedDuring : fetches[a].program # fetches[b].program

C30_LogsOfSelectedProgramShown ==
    \A b \in 1..Len(fetches) :
       ( /\ b = Len(fetches)
         /\ SelectedDuringFetchOfAnother(b)
         /\ selectedUserProgram = fetches[b].program
         /\ fetchesInFlight = {} )
       => workoutData = fetches[b].logs
====
